---- MODULE Spec2Model ----
(***************************************************************************)
(* gitscaffold: the roadmap parser (scaffold/parser.py) and the            *)
(* reconciliation commands sync and diff (scaffold/cli.py), run against an *)
(* issue tracker.  The tracker client (scaffold/github.py) and the schema  *)
(* validator (scaffold/validator.py) are modelled at their interface.      *)
(***************************************************************************)
EXTENDS Integers, Sequences, FiniteSets, TLC

(***************************************************************************)
(* Bounds of the model and the small sets the inputs are drawn from.       *)
(***************************************************************************)
\* milestones + features + tasks of one roadmap
MaxItems == 3
\* issues on the tracker before the first run
MaxRemote == 1

Titles == {"A", "B"}
Descriptions == {"", "d"}
MilestoneNames == {"M1"}
DueDate == "2025-01-01"
FeatureDescription == "fd"

\* An issue body is its text followed, when parent > 0, by the line
\* "Parent issue: #<parent>"; parent = 0 is a body without that line.
NoBody == [text |-> "", parent |-> 0]
Plain(text) == [text |-> text, parent |-> 0]

Indices(n) == [i \in 1..n |-> i]

\* a task is open without a description, open with one, or completed with one
TaskVariants ==
    {[title |-> t, description |-> d, completed |-> c] :
        t \in Titles, d \in Descriptions, c \in BOOLEAN} \
    {[title |-> t, description |-> "", completed |-> TRUE] : t \in Titles}

TaskSeqs(k) == UNION {[1..m -> TaskVariants] : m \in 0..k}

FeaturesUpTo(n) ==
    IF n < 1 THEN {}
    ELSE {[title |-> t, description |-> FeatureDescription, tasks |-> ts] :
            t \in Titles, ts \in TaskSeqs(n - 1)}

RECURSIVE FeatureSeqs(_)
\* the feature sequences whose features and tasks number at most n
FeatureSeqs(n) ==
    {<<>>} \cup
    UNION {{<<f>> \o rest : rest \in FeatureSeqs(n - 1 - Len(f.tasks))} :
              f \in FeaturesUpTo(n)}

MilestoneSeqs ==
    {<<>>} \cup {<<[name |-> m, due_date |-> DueDate]>> : m \in MilestoneNames}

Roadmaps ==
    UNION {{[milestones |-> ms, features |-> fs] :
               fs \in FeatureSeqs(MaxItems - Len(ms))} : ms \in MilestoneSeqs}

\* the issues somebody else opened before the first run
SeedIssues == {[title |-> t, body |-> NoBody, state |-> "open"] : t \in Titles}

SeedTrackers == UNION {[1..m -> SeedIssues] : m \in 0..MaxRemote}

VARIABLES
    roadmap,              \* validated_roadmap of the run
    gh_issues,            \* the tracker's issues; an issue's number is its index
    gh_milestones,        \* the names of the tracker's milestones
    local_file,           \* what write_roadmap has written to the roadmap file, in order
    cmd,                  \* the command of the current run
    opts,                 \* its options and the answer to its prompt
    pc,                   \* where the run is
    existing_issue_titles,
    milestones_to_create,
    features_to_create,
    tasks_to_create,
    tasks_to_update,
    tasks_to_close,
    lookup,               \* sync: the issue _find_issue returned for each title, 0 for None
    feature_object_map,
    idx,                  \* position in the list being applied
    tidx,                 \* position among the tasks of the current feature
    parent_issue,         \* number of the parent issue of the tasks being created
    calls,                \* the tracker mutations this run has issued, in order
    reads,                \* the reads of the tracker this run has made, in order
    lookup_failed,        \* whether a read of the tracker raised and nothing caught it
    missing,              \* diff: titles of the roadmap that the tracker lacks
    extra,                \* diff: titles of the tracker that the roadmap lacks
    created_count,
    failed_count,
    prev_clean,           \* the run before was a confirmed sync without failure
    md_file,              \* parser: the lines of the roadmap file
    data,                 \* parser: what parse_markdown returned last
    validated,            \* parser: the roadmap the validator made of the first parse
    parse_pc,             \* parser: how far the round trip has come
    load_pc,              \* loading: where the run stands before it connects
    source,               \* loading: the command, its flags and the roadmap file
    use_ai,
    attempts,
    ai_calls,             \* loading: the outcomes of extract_issues_from_markdown, in order
    new_keys,             \* loading: how many keys the run has prompted for after a failure
    connected,            \* loading: GitHubClient(token, repo) has been constructed
    raw_roadmap_data,
    validated_roadmap,
    roadmap_title_set,    \* loading: roadmap_titles of diff
    running_agents,       \* agents: start_agent.running_agents, agent id -> pid
    agent_procs           \* agents: the processes Popen has started; a pid is an index

input == <<roadmap, cmd, opts, prev_clean>>

plan == <<existing_issue_titles, milestones_to_create, features_to_create,
          tasks_to_create, tasks_to_update, tasks_to_close, lookup, missing, extra>>

loading == <<load_pc, source, use_ai, attempts, ai_calls, new_keys, connected,
             raw_roadmap_data, validated_roadmap, roadmap_title_set>>

agents == <<running_agents, agent_procs>>

parsing == <<md_file, data, validated, parse_pc, loading, agents>>

vars == <<roadmap, gh_issues, gh_milestones, local_file, cmd, opts, pc,
          existing_issue_titles, milestones_to_create, features_to_create,
          tasks_to_create, tasks_to_update, tasks_to_close, lookup,
          feature_object_map, idx, tidx, parent_issue, calls, reads, lookup_failed, missing, extra,
          created_count, failed_count, prev_clean, md_file, data, validated, parse_pc,
          load_pc, source, use_ai,
          attempts, ai_calls, new_keys, connected, raw_roadmap_data, validated_roadmap,
          roadmap_title_set,
          running_agents, agent_procs>>

(***************************************************************************)
(* The tracker client.                                                     *)
(***************************************************************************)
ListIssueTitles(issues) == {issues[n].title : n \in DOMAIN issues}

Matches(issues, title) == {n \in DOMAIN issues : issues[n].title = title}

\* find_issue returns the first match the tracker lists; the listing order is
\* the tracker's, so any match may be the one: 0 stands for None.
FindIssue(issues) ==
    {pick \in [Titles -> 0..Len(issues)] :
        \A t \in Titles :
            IF Matches(issues, t) = {} THEN pick[t] = 0
            ELSE pick[t] \in Matches(issues, t)}

CreateIssue(issues, title, body) ==
    Append(issues, [title |-> title, body |-> body, state |-> "open"])

UpdateIssue(issues, number, body) == [issues EXCEPT ![number].body = body]

CloseIssue(issues, number) == [issues EXCEPT ![number].state = "closed"]

(***************************************************************************)
(* sync: classification of the roadmap against the snapshot.               *)
(***************************************************************************)
RECURSIVE TaskEntriesFrom(_, _)
\* the tasks of the roadmap in the order the loops visit them
TaskEntriesFrom(rm, f) ==
    IF f > Len(rm.features) THEN <<>>
    ELSE [t \in 1..Len(rm.features[f].tasks) |-> [f |-> f, t |-> t]]
         \o TaskEntriesFrom(rm, f + 1)

TaskEntries(rm) == TaskEntriesFrom(rm, 1)

TaskOf(rm, e) == rm.features[e.f].tasks[e.t]

MilestonesToCreate(rm, ghms) ==
    SelectSeq(rm.milestones, LAMBDA m : m.name \notin ghms)

FeaturesToCreateOncePerTitle(rm, snap) ==
    SelectSeq(Indices(Len(rm.features)),
              LAMBDA f : /\ rm.features[f].title \notin snap
                         /\ \A g \in 1..(f - 1) : rm.features[g].title # rm.features[f].title)

FeaturesToCreate(rm, snap) ==
    SelectSeq(Indices(Len(rm.features)), LAMBDA f : rm.features[f].title \notin snap)

\* tasks_to_create[key].append(e) on a defaultdict(list), which keeps its keys
\* in the order of their first insertion
AppendToGroup(groups, key, e) ==
    IF \E g \in DOMAIN groups : groups[g].key = key
    THEN [g \in DOMAIN groups |->
            IF groups[g].key = key
            THEN [groups[g] EXCEPT !.tasks = Append(@, e)]
            ELSE groups[g]]
    ELSE Append(groups, [key |-> key, tasks |-> <<e>>])

RECURSIVE GroupTasks(_, _, _)
GroupTasks(rm, entries, groups) ==
    IF entries = <<>> THEN groups
    ELSE GroupTasks(rm, Tail(entries),
                    AppendToGroup(groups, rm.features[Head(entries).f].title,
                                  Head(entries)))

TasksToCreateUnderNewFeatures(rm, snap) ==
    GroupTasks(rm,
               SelectSeq(TaskEntries(rm),
                         LAMBDA e : /\ TaskOf(rm, e).title \notin snap
                                    /\ rm.features[e.f].title \notin snap),
               <<>>)

TasksToCreate(rm, snap) ==
    GroupTasks(rm,
               SelectSeq(TaskEntries(rm), LAMBDA e : TaskOf(rm, e).title \notin snap),
               <<>>)

\* the tasks whose title is in the snapshot and whose lookup finds an issue
FoundTasks(rm, snap, pick) ==
    SelectSeq(TaskEntries(rm),
              LAMBDA e : /\ TaskOf(rm, e).title \in snap
                         /\ pick[TaskOf(rm, e).title] # 0)

ShouldCloseInverted(task, issue) == task.completed /\ issue.state = "closed"

ShouldClose(task, issue) == task.completed /\ issue.state # "closed"

BodyDiffersOrEmpty(task, issue) == Plain(task.description) # issue.body

\* new_body and new_body != current_body, both stripped
BodyDiffers(task, issue) ==
    /\ task.description # ""
    /\ Plain(task.description) # issue.body

TasksToClose(rm, snap, pick, issues) ==
    LET hit == SelectSeq(FoundTasks(rm, snap, pick),
                   LAMBDA e : ShouldClose(TaskOf(rm, e), issues[pick[TaskOf(rm, e).title]]))
    IN  [k \in DOMAIN hit |-> pick[TaskOf(rm, hit[k]).title]]

TasksToUpdateAlsoWhenClosing(rm, snap, pick, issues) ==
    LET hit == SelectSeq(FoundTasks(rm, snap, pick),
                   LAMBDA e : BodyDiffers(TaskOf(rm, e), issues[pick[TaskOf(rm, e).title]]))
    IN  [k \in DOMAIN hit |->
            [number |-> pick[TaskOf(rm, hit[k]).title],
             body |-> Plain(TaskOf(rm, hit[k]).description)]]

TasksToUpdate(rm, snap, pick, issues) ==
    LET hit == SelectSeq(FoundTasks(rm, snap, pick),
                   LAMBDA e :
                       LET task == TaskOf(rm, e)
                           issue == issues[pick[task.title]]
                       IN  ~ShouldClose(task, issue) /\ BodyDiffers(task, issue))
    IN  [k \in DOMAIN hit |->
            [number |-> pick[TaskOf(rm, hit[k]).title],
             body |-> Plain(TaskOf(rm, hit[k]).description)]]

\* f"{body}\n\nParent issue: #{number}".strip()
WithParent(description, number) == [text |-> description, parent |-> number]

Call(op, kind, title, body, number, ok, f, t) ==
    [op |-> op, kind |-> kind, title |-> title, body |-> body,
     number |-> number, ok |-> ok, f |-> f, t |-> t]

NoData == [name |-> <<>>, description |-> <<>>, milestones |-> <<>>, features |-> <<>>]

NoSource == [cmd |-> "none", suffix |-> "none", content |-> "none", lines |-> <<>>,
             mapping |-> NoData, force_ai |-> FALSE, no_ai |-> FALSE]

\* no roadmap is being loaded
NotLoading ==
    /\ load_pc = "none"
    /\ source = NoSource
    /\ use_ai = FALSE
    /\ attempts = 0
    /\ ai_calls = <<>>
    /\ new_keys = 0
    /\ connected = FALSE
    /\ raw_roadmap_data = NoData
    /\ validated_roadmap = NoData
    /\ roadmap_title_set = {}

\* no file is being parsed
NotParsing ==
    /\ md_file = <<>>
    /\ data = NoData
    /\ validated = NoData
    /\ parse_pc = "none"
    /\ NotLoading

NoOpts == [update_local |-> FALSE, dry_run |-> FALSE, proceed |-> FALSE]
NoMap == [t \in Titles |-> 0]

\* no command has run yet
NotRunning ==
    /\ local_file = <<>>
    /\ cmd = "none"
    /\ opts = NoOpts
    /\ pc = "idle"
    /\ existing_issue_titles = {}
    /\ milestones_to_create = <<>>
    /\ features_to_create = <<>>
    /\ tasks_to_create = <<>>
    /\ tasks_to_update = <<>>
    /\ tasks_to_close = <<>>
    /\ lookup = NoMap
    /\ feature_object_map = NoMap
    /\ idx = 0
    /\ tidx = 0
    /\ parent_issue = 0
    /\ calls = <<>>
    /\ reads = <<>>
    /\ lookup_failed = FALSE
    /\ missing = {}
    /\ extra = {}
    /\ created_count = 0
    /\ failed_count = 0
    /\ prev_clean = FALSE
    /\ running_agents = <<>>
    /\ agent_procs = <<>>

Init ==
    /\ roadmap \in Roadmaps
    /\ gh_issues \in SeedTrackers
    /\ gh_milestones \in SUBSET {roadmap.milestones[i].name : i \in DOMAIN roadmap.milestones}
    /\ NotRunning
    /\ NotParsing

(***************************************************************************)
(* A run starts when no run is under way.  The options of the command line *)
(* and the answer to the prompt are inputs of the run.                     *)
(***************************************************************************)
\* the run that just ended was a sync that applied its changes to the end
WasClean ==
    /\ cmd = "sync"
    /\ pc = "done"
    /\ ~opts.update_local
    /\ ~opts.dry_run
    /\ opts.proceed

\* a command is run on a fresh checkout; sync is also run once more after a
\* clean sync
Finished == pc = "idle" \/ (WasClean /\ ~prev_clean)

StartRunCreatingMilestone(c, o) ==
    /\ IF c = "sync" THEN Finished ELSE pc = "idle"
    /\ cmd' = c
    /\ opts' = o
    /\ calls' = IF c = "sync" /\ roadmap.milestones # <<>>
                 THEN <<[op |-> "create_milestone", kind |-> "milestone",
                         title |-> roadmap.milestones[1].name,
                         body |-> NoBody,
                         number |-> 0, ok |-> TRUE, f |-> 0, t |-> 0]>>
                 ELSE <<>>
    /\ created_count' = 0
    /\ failed_count' = 0
    /\ IF c = "diff" THEN TRUE ELSE missing' = {} /\ extra' = {}
    /\ feature_object_map' = NoMap
    /\ parent_issue' = 0
    /\ prev_clean' = WasClean

StartRun(c, o) ==
    /\ IF c = "sync" THEN Finished ELSE pc = "idle"
    /\ cmd' = c
    /\ opts' = o
    /\ calls' = <<>>
    /\ created_count' = 0
    /\ failed_count' = 0
    /\ IF c = "diff" THEN TRUE ELSE missing' = {} /\ extra' = {}
    /\ feature_object_map' = NoMap
    /\ parent_issue' = 0
    /\ prev_clean' = WasClean

\* the run draws up no lists of actions
NoPlan ==
    /\ milestones_to_create' = <<>>
    /\ features_to_create' = <<>>
    /\ tasks_to_create' = <<>>
    /\ tasks_to_update' = <<>>
    /\ tasks_to_close' = <<>>
    /\ lookup' = NoMap

ProceedsAlthoughDryRun(dry_run, proceed) == proceed

\* the changes are applied: not a dry run, and --yes or a yes to the prompt
Proceeds(dry_run, proceed) == ~dry_run /\ proceed

SyncPhases == <<"apply_ms", "apply_feat", "apply_task", "apply_upd", "apply_close">>

PhaseAfterTasksFirst(k) ==
    CASE k = 1 -> 3
      [] k = 3 -> 2
      [] k = 2 -> 4
      [] OTHER -> k + 1

\* the loop that follows the k-th in the text of sync
PhaseAfter(k) == k + 1

RECURSIVE FirstPhase(_, _)
\* the first loop from the k-th on that has something to iterate over
FirstPhase(k, lens) ==
    IF k > Len(SyncPhases) THEN "done"
    ELSE IF lens[k] > 0 THEN SyncPhases[k]
    ELSE FirstPhase(PhaseAfter(k), lens)

PlanLens == <<Len(milestones_to_create), Len(features_to_create),
              Len(tasks_to_create), Len(tasks_to_update), Len(tasks_to_close)>>

\* the loop over the k-th list moves on from its position i
Advance(k, i) ==
    IF i < PlanLens[k]
    THEN pc' = SyncPhases[k] /\ idx' = i + 1
    ELSE pc' = FirstPhase(PhaseAfter(k), PlanLens) /\ idx' = 1

RECURSIVE SumSeq(_)
SumSeq(s) == IF s = <<>> THEN 0 ELSE Head(s) + SumSeq(Tail(s))

GroupSizes(groups) == [g \in DOMAIN groups |-> Len(groups[g].tasks)]

\* a read of the tracker: by title, by number, or of all issues
Read(op, title, number) == [op |-> op, title |-> title, number |-> number]

\* get_all_issue_titles(), taken once
Snapshot == Read("get_all_issue_titles", "", 0)

ClassifyReadsFetchingAgain(rm, snap) ==
    LET present == SelectSeq(TaskEntries(rm), LAMBDA e : TaskOf(rm, e).title \in snap)
    IN  <<Snapshot>>
        \o [m \in DOMAIN rm.milestones |-> Read("_find_milestone", rm.milestones[m].name, 0)]
        \o [k \in DOMAIN present |->
                IF k = 1 THEN Snapshot ELSE Read("_find_issue", TaskOf(rm, present[k]).title, 0)]

\* the reads of the comparison: the snapshot, a lookup for every milestone and
\* one for every task whose title the snapshot holds
ClassifyReads(rm, snap) ==
    LET present == SelectSeq(TaskEntries(rm), LAMBDA e : TaskOf(rm, e).title \in snap)
    IN  <<Snapshot>>
        \o [m \in DOMAIN rm.milestones |-> Read("_find_milestone", rm.milestones[m].name, 0)]
        \o [k \in DOMAIN present |-> Read("_find_issue", TaskOf(rm, present[k]).title, 0)]

\* sync on a repository that has issues: compare, summarise, ask, then apply
SyncClassify ==
    /\ Finished
    /\ \E dr \in BOOLEAN, pr \in BOOLEAN, pick \in FindIssue(gh_issues) :
           LET snap == ListIssueTitles(gh_issues)
               ms == MilestonesToCreate(roadmap, gh_milestones)
               fs == FeaturesToCreate(roadmap, snap)
               gs == TasksToCreate(roadmap, snap)
               us == TasksToUpdate(roadmap, snap, pick, gh_issues)
               cs == TasksToClose(roadmap, snap, pick, gh_issues)
               total_new_items == Len(ms) + Len(fs) + SumSeq(GroupSizes(gs))
           IN  /\ snap # {}
               /\ StartRun("sync", [update_local |-> FALSE, dry_run |-> dr, proceed |-> pr])
               /\ existing_issue_titles' = snap
               /\ milestones_to_create' = ms
               /\ features_to_create' = fs
               /\ tasks_to_create' = gs
               /\ tasks_to_update' = us
               /\ tasks_to_close' = cs
               /\ lookup' = pick
               /\ reads' = ClassifyReads(roadmap, snap)
               /\ lookup_failed' = FALSE
               /\ pc' = IF total_new_items = 0 /\ Len(us) = 0 /\ Len(cs) = 0 THEN "done"
                        ELSE IF ~Proceeds(dr, pr) THEN "done"
                        ELSE FirstPhase(1, <<Len(ms), Len(fs), Len(gs), Len(us), Len(cs)>>)
               /\ idx' = 1
               /\ tidx' = 0
               /\ UNCHANGED <<parsing, roadmap, gh_issues, gh_milestones, local_file>>

SyncLookupFailsAfterMilestone ==
    /\ pc = "idle"
    /\ \E ul \in BOOLEAN :
           LET snap == ListIssueTitles(gh_issues)
               all == IF ul THEN <<Read("get_all_issues", "", 0)>>
                      ELSE IF snap = {} THEN <<Snapshot>>
                      ELSE ClassifyReads(roadmap, snap)
           IN  \E n \in DOMAIN all :
               /\ StartRunCreatingMilestone("sync", [update_local |-> ul, dry_run |-> FALSE, proceed |-> FALSE])
               /\ existing_issue_titles' = IF n = 1 THEN {} ELSE snap
               /\ NoPlan
               /\ lookup' = NoMap
               /\ reads' = SubSeq(all, 1, n)
               /\ lookup_failed' = TRUE
               /\ pc' = "aborted"
               /\ idx' = 0
               /\ tidx' = 0
               /\ UNCHANGED <<parsing, roadmap, gh_issues, gh_milestones, local_file>>

\* a read of the comparison raises: the listing, the lookup of a milestone or
\* the lookup of a task the snapshot holds.  Nothing catches it and the run
\* ends there, before the prompt and whatever its options; the lists of the
\* comparison are locals that die with it.
SyncLookupFails ==
    /\ pc = "idle"
    /\ \E ul \in BOOLEAN :
           LET snap == ListIssueTitles(gh_issues)
               all == IF ul THEN <<Read("get_all_issues", "", 0)>>
                      ELSE IF snap = {} THEN <<Snapshot>>
                      ELSE ClassifyReads(roadmap, snap)
           IN  \E n \in DOMAIN all :
               /\ StartRun("sync", [update_local |-> ul, dry_run |-> FALSE, proceed |-> FALSE])
               /\ existing_issue_titles' = IF n = 1 THEN {} ELSE snap
               /\ NoPlan
               /\ lookup' = NoMap
               /\ reads' = SubSeq(all, 1, n)
               /\ lookup_failed' = TRUE
               /\ pc' = "aborted"
               /\ idx' = 0
               /\ tidx' = 0
               /\ UNCHANGED <<parsing, roadmap, gh_issues, gh_milestones, local_file>>

FailAndTryAgain == UNCHANGED <<pc, idx, tidx>>

\* an exception of the client that nothing catches ends the run
Fail == pc' = "failed" /\ UNCHANGED <<idx, tidx>>

SyncCreateMilestone ==
    /\ pc = "apply_ms"
    /\ \E ok \in BOOLEAN :
        LET m == milestones_to_create[idx] IN
        /\ calls' = Append(calls, Call("create_milestone", "milestone", m.name, NoBody, 0, ok, 0, 0))
        /\ IF ok
           THEN /\ gh_milestones' = gh_milestones \cup {m.name}
                /\ Advance(1, idx)
                /\ UNCHANGED tidx
           ELSE Fail /\ UNCHANGED gh_milestones
    /\ UNCHANGED <<input, plan, parsing, reads, lookup_failed, gh_issues, local_file, feature_object_map,
                   parent_issue, created_count, failed_count>>

SyncCreateFeature ==
    /\ pc = "apply_feat"
    /\ \E ok \in BOOLEAN :
        LET f == features_to_create[idx]
            feat == roadmap.features[f]
            number == Len(gh_issues) + 1
        IN
        /\ calls' = Append(calls, Call("create_issue", "feature", feat.title,
                                       Plain(feat.description), IF ok THEN number ELSE 0, ok, f, 0))
        /\ IF ok
           THEN /\ gh_issues' = CreateIssue(gh_issues, feat.title, Plain(feat.description))
                /\ feature_object_map' = [feature_object_map EXCEPT ![feat.title] = number]
                /\ Advance(2, idx)
                /\ tidx' = 0
           ELSE Fail /\ UNCHANGED <<gh_issues, feature_object_map>>
    /\ UNCHANGED <<input, plan, parsing, reads, lookup_failed, gh_milestones, local_file, parent_issue, created_count,
                   failed_count>>

\* the parent of a group of tasks: the feature created in this run, else a lookup
SyncFindParent ==
    /\ pc = "apply_task"
    /\ tidx = 0
    /\ \E ok \in BOOLEAN, pick \in FindIssue(gh_issues) :
        LET key == tasks_to_create[idx].key
            parent == IF feature_object_map[key] # 0 THEN feature_object_map[key]
                      ELSE pick[key]
        IN
        /\ reads' = IF feature_object_map[key] = 0
                     THEN Append(reads, Read("_find_issue", key, 0)) ELSE reads
        /\ lookup_failed' = (feature_object_map[key] = 0 /\ ~ok)
        /\ IF feature_object_map[key] = 0 /\ ~ok
           THEN Fail /\ UNCHANGED parent_issue
           ELSE IF parent = 0
           THEN Advance(3, idx) /\ tidx' = 0 /\ UNCHANGED parent_issue
           ELSE pc' = pc /\ idx' = idx /\ tidx' = 1 /\ parent_issue' = parent
    /\ UNCHANGED <<input, plan, parsing, gh_issues, gh_milestones, local_file,
                   feature_object_map, calls, created_count, failed_count>>

SyncCreateTask ==
    /\ pc = "apply_task"
    /\ tidx > 0
    /\ \E ok \in BOOLEAN :
        LET e == tasks_to_create[idx].tasks[tidx]
            task == TaskOf(roadmap, e)
            content == WithParent(task.description, parent_issue)
            number == Len(gh_issues) + 1
        IN
        /\ calls' = Append(calls, Call("create_issue", "task", task.title, content,
                                       IF ok THEN number ELSE 0, ok, e.f, e.t))
        /\ IF ok
           THEN /\ gh_issues' = CreateIssue(gh_issues, task.title, content)
                /\ IF tidx < Len(tasks_to_create[idx].tasks)
                   THEN pc' = pc /\ idx' = idx /\ tidx' = tidx + 1
                   ELSE Advance(3, idx) /\ tidx' = 0
           ELSE Fail /\ UNCHANGED gh_issues
    /\ UNCHANGED <<input, plan, parsing, reads, lookup_failed, gh_milestones, local_file, feature_object_map,
                   parent_issue, created_count, failed_count>>

SyncUpdateIssue ==
    /\ pc = "apply_upd"
    /\ \E ok \in BOOLEAN :
        LET u == tasks_to_update[idx] IN
        /\ calls' = Append(calls, Call("update_issue", "update", gh_issues[u.number].title,
                                       u.body, u.number, ok, 0, 0))
        /\ IF ok
           THEN /\ gh_issues' = UpdateIssue(gh_issues, u.number, u.body)
                /\ Advance(4, idx)
                /\ UNCHANGED tidx
           ELSE Fail /\ UNCHANGED gh_issues
    /\ UNCHANGED <<input, plan, parsing, reads, lookup_failed, gh_milestones, local_file, feature_object_map,
                   parent_issue, created_count, failed_count>>

SyncCloseIssue ==
    /\ pc = "apply_close"
    /\ \E ok \in BOOLEAN :
        LET number == tasks_to_close[idx] IN
        /\ calls' = Append(calls, Call("close_issue", "close", gh_issues[number].title,
                                       NoBody, number, ok, 0, 0))
        /\ IF ok
           THEN /\ gh_issues' = CloseIssue(gh_issues, number)
                /\ Advance(5, idx)
                /\ UNCHANGED tidx
           ELSE Fail /\ UNCHANGED gh_issues
    /\ UNCHANGED <<input, plan, parsing, reads, lookup_failed, gh_milestones, local_file, feature_object_map,
                   parent_issue, created_count, failed_count>>

(***************************************************************************)
(* sync on a repository without issues: _populate_repo_from_roadmap, first *)
(* as a preview (dry_run=True), then for real.                             *)
(***************************************************************************)
PopulateFeaturesTasksFirst(rm, f) ==
    IF f <= Len(rm.features)
    THEN IF Len(rm.features[f].tasks) > 0
         THEN [pc |-> "pop_task", idx |-> f, tidx |-> 1]
         ELSE [pc |-> "pop_feat", idx |-> f, tidx |-> 0]
    ELSE [pc |-> "done", idx |-> f, tidx |-> 0]

\* where the populate loops stand after the milestones
PopulateFeatures(rm, f) ==
    IF f <= Len(rm.features) THEN [pc |-> "pop_feat", idx |-> f, tidx |-> 0]
    ELSE [pc |-> "done", idx |-> f, tidx |-> 0]

\* where they stand after the t-th task of the f-th feature (t = 0: after the
\* feature's own issue)
PopulateAfter(rm, f, t) ==
    IF t < Len(rm.features[f].tasks) THEN [pc |-> "pop_task", idx |-> f, tidx |-> t + 1]
    ELSE PopulateFeatures(rm, f + 1)

PopulateStart(rm) ==
    IF Len(rm.milestones) > 0 THEN [pc |-> "pop_ms", idx |-> 1, tidx |-> 0]
    ELSE PopulateFeatures(rm, 1)

Goto(at) == pc' = at.pc /\ idx' = at.idx /\ tidx' = at.tidx

SyncPopulatePreviewUngated ==
    \E dr \in BOOLEAN, pr \in BOOLEAN :
        /\ ListIssueTitles(gh_issues) = {}
        /\ StartRun("sync", [update_local |-> FALSE, dry_run |-> dr, proceed |-> pr])
        /\ existing_issue_titles' = {}
        /\ reads' = <<Snapshot>>
        /\ lookup_failed' = FALSE
        /\ NoPlan
        /\ Goto(PopulateStart(roadmap))
        /\ UNCHANGED <<parsing, roadmap, gh_issues, gh_milestones, local_file>>

SyncPopulatePreview ==
    \E dr \in BOOLEAN, pr \in BOOLEAN :
        /\ ListIssueTitles(gh_issues) = {}
        /\ StartRun("sync", [update_local |-> FALSE, dry_run |-> dr, proceed |-> pr])
        /\ existing_issue_titles' = {}
        /\ reads' = <<Snapshot>>
        /\ lookup_failed' = FALSE
        /\ NoPlan
        /\ IF ~Proceeds(dr, pr) THEN Goto([pc |-> "done", idx |-> 1, tidx |-> 0])
           ELSE Goto(PopulateStart(roadmap))
        /\ UNCHANGED <<parsing, roadmap, gh_issues, gh_milestones, local_file>>

PopulateMilestone ==
    /\ pc = "pop_ms"
    /\ \E ok \in BOOLEAN :
        LET m == roadmap.milestones[idx] IN
        /\ calls' = Append(calls, Call("create_milestone", "milestone", m.name, NoBody, 0, ok, 0, 0))
        /\ IF ok
           THEN /\ gh_milestones' = gh_milestones \cup {m.name}
                /\ IF idx < Len(roadmap.milestones)
                   THEN Goto([pc |-> "pop_ms", idx |-> idx + 1, tidx |-> 0])
                   ELSE Goto(PopulateFeatures(roadmap, 1))
           ELSE Fail /\ UNCHANGED gh_milestones
    /\ UNCHANGED <<input, plan, parsing, reads, lookup_failed, gh_issues, local_file, feature_object_map,
                   parent_issue, created_count, failed_count>>

PopulateFeature ==
    /\ pc = "pop_feat"
    /\ \E ok \in BOOLEAN :
        LET feat == roadmap.features[idx]
            number == Len(gh_issues) + 1
        IN
        /\ calls' = Append(calls, Call("create_issue", "feature", feat.title,
                                       Plain(feat.description), IF ok THEN number ELSE 0, ok, idx, 0))
        /\ IF ok
           THEN /\ gh_issues' = CreateIssue(gh_issues, feat.title, Plain(feat.description))
                /\ parent_issue' = number
                /\ Goto(PopulateAfter(roadmap, idx, 0))
           ELSE Fail /\ UNCHANGED <<gh_issues, parent_issue>>
    /\ UNCHANGED <<input, plan, parsing, reads, lookup_failed, gh_milestones, local_file, feature_object_map,
                   created_count, failed_count>>

PopulateTask ==
    /\ pc = "pop_task"
    /\ \E ok \in BOOLEAN :
        LET task == roadmap.features[idx].tasks[tidx]
            content == IF parent_issue # 0 THEN WithParent(task.description, parent_issue)
                       ELSE Plain(task.description)
            number == Len(gh_issues) + 1
        IN
        /\ calls' = Append(calls, Call("create_issue", "task", task.title, content,
                                       IF ok THEN number ELSE 0, ok, idx, tidx))
        /\ IF ok
           THEN /\ gh_issues' = CreateIssue(gh_issues, task.title, content)
                /\ Goto(PopulateAfter(roadmap, idx, tidx))
           ELSE Fail /\ UNCHANGED gh_issues
    /\ UNCHANGED <<input, plan, parsing, reads, lookup_failed, gh_milestones, local_file, feature_object_map,
                   parent_issue, created_count, failed_count>>

(***************************************************************************)
(* sync --update-local: remote issues the roadmap lacks are appended to    *)
(* it, tasks of closed issues are marked, and the file is written.         *)
(***************************************************************************)
RoadmapTitles(rm) ==
    {rm.features[f].title : f \in DOMAIN rm.features}
    \cup {TaskOf(rm, TaskEntries(rm)[k]).title : k \in DOMAIN TaskEntries(rm)}

\* next((f for f in features if f.title == parent_title), None); 0 for None
FirstFeature(rm, title) ==
    IF \E f \in DOMAIN rm.features : rm.features[f].title = title
    THEN CHOOSE f \in DOMAIN rm.features :
            /\ rm.features[f].title = title
            /\ \A g \in 1..(f - 1) : rm.features[g].title # title
    ELSE 0

\* one remote issue that the roadmap lacks is added to it; its description is
\* the whole body of the issue, the parent line included.  reads_ok holds the
\* numbers of the issues whose parent get_issue returns; for the others it
\* raises GithubException, which is caught.
AddRemoteIssue(rm, issues, n, reads_ok) ==
    LET issue == issues[n]
        as_task == [title |-> issue.title, description |-> issue.body.text,
                    parent_line |-> issue.body.parent, completed |-> FALSE]
        as_feature == [title |-> issue.title, description |-> issue.body.text,
                       parent_line |-> issue.body.parent, tasks |-> <<>>]
        parent_feature ==
            IF issue.body.parent # 0 /\ n \in reads_ok /\ issue.body.parent \in DOMAIN issues
            THEN FirstFeature(rm, issues[issue.body.parent].title)
            ELSE 0
    IN  IF parent_feature # 0
        THEN [rm EXCEPT !.features[parent_feature].tasks = Append(@, as_task)]
        ELSE [rm EXCEPT !.features = Append(@, as_feature)]

RECURSIVE AddRemoteIssues(_, _, _, _, _)
AddRemoteIssues(rm, issues, n, extra_titles, reads_ok) ==
    IF n > Len(issues) THEN rm
    ELSE AddRemoteIssues(
            IF issues[n].title \in extra_titles
            THEN AddRemoteIssue(rm, issues, n, reads_ok) ELSE rm,
            issues, n + 1, extra_titles, reads_ok)

MarkCompleted(rm, closed_titles) ==
    [rm EXCEPT !.features =
        [f \in DOMAIN rm.features |->
            [rm.features[f] EXCEPT !.tasks =
                [t \in DOMAIN rm.features[f].tasks |->
                    IF rm.features[f].tasks[t].title \in closed_titles
                    THEN [rm.features[f].tasks[t] EXCEPT !.completed = TRUE]
                    ELSE rm.features[f].tasks[t]]]]]

\* gh_client.repo.get_issue(parent_issue_num) for every issue the roadmap
\* lacks whose body names a parent
LinkedExtra(issues, extra_titles) ==
    {n \in DOMAIN issues : issues[n].title \in extra_titles /\ issues[n].body.parent # 0}

ParentReads(issues, extra_titles) ==
    LET linked == SelectSeq(issues, LAMBDA issue : /\ issue.title \in extra_titles
                                                  /\ issue.body.parent # 0)
    IN  [k \in DOMAIN linked |-> Read("get_issue", "", linked[k].body.parent)]

SyncUpdateLocal ==
    \E dr \in BOOLEAN, pr \in BOOLEAN,
       reads_ok \in SUBSET LinkedExtra(gh_issues, ListIssueTitles(gh_issues) \ RoadmapTitles(roadmap)) :
        LET gh_issue_titles == ListIssueTitles(gh_issues)
            extra_titles == gh_issue_titles \ RoadmapTitles(roadmap)
            closed_titles == {gh_issues[n].title :
                                n \in {k \in DOMAIN gh_issues : gh_issues[k].state = "closed"}}
            updated == MarkCompleted(
                           AddRemoteIssues(roadmap, gh_issues, 1, extra_titles, reads_ok),
                           closed_titles)
        IN  /\ StartRun("sync", [update_local |-> TRUE, dry_run |-> dr, proceed |-> pr])
            /\ existing_issue_titles' = gh_issue_titles
            /\ reads' = <<Read("get_all_issues", "", 0)>> \o ParentReads(gh_issues, extra_titles)
            /\ lookup_failed' = FALSE
            /\ local_file' = IF extra_titles # {} /\ Proceeds(dr, pr)
                             THEN Append(local_file, updated) ELSE local_file
            /\ Goto([pc |-> "done", idx |-> 0, tidx |-> 0])
            /\ NoPlan
            /\ UNCHANGED <<parsing, roadmap, gh_issues, gh_milestones>>

(***************************************************************************)
(* sync --update-local on a repository that has been worked on: its issues *)
(* are open or closed, and a body may name a parent.                       *)
(***************************************************************************)
\* issues on the tracker of such a repository
MaxLocalRemote == 2
\* features + tasks of the roadmap that is updated
MaxLocalItems == 2

LocalIssues ==
    {[title |-> t, body |-> WithParent("", p), state |-> st] :
        t \in Titles, p \in 0..1, st \in {"open", "closed"}}

LocalTrackers == UNION {[1..m -> LocalIssues] : m \in 0..MaxLocalRemote}

LocalRoadmaps ==
    {rm \in Roadmaps : Len(rm.features) + Len(TaskEntries(rm)) <= MaxLocalItems}

LocalInit ==
    /\ roadmap \in LocalRoadmaps
    /\ gh_issues \in LocalTrackers
    /\ gh_milestones = {}
    /\ NotRunning
    /\ NotParsing

LocalNext == SyncUpdateLocal

LocalSpec == LocalInit /\ [][LocalNext]_vars

(***************************************************************************)
(* diff: the titles of the roadmap against the titles of the tracker, and  *)
(* on confirmation the creation of the missing ones.                       *)
(***************************************************************************)
MissingIgnoringTracker(roadmap_titles, gh_titles) == roadmap_titles

Missing(roadmap_titles, gh_titles) == roadmap_titles \ gh_titles

Extra(roadmap_titles, gh_titles) == gh_titles \ roadmap_titles

DiffEndsHere(rm, miss, f, t) == [pc |-> "done", idx |-> f, tidx |-> 0]

RECURSIVE DiffNext(_, _, _, _)
\* the next feature (t = 0) or task from (f, t) on whose title is missing
DiffNext(rm, miss, f, t) ==
    IF f > Len(rm.features) THEN [pc |-> "done", idx |-> f, tidx |-> 0]
    ELSE IF t = 0
    THEN IF rm.features[f].title \in miss
         THEN [pc |-> "diff_feat", idx |-> f, tidx |-> 0]
         ELSE DiffNext(rm, miss, f, 1)
    ELSE IF t > Len(rm.features[f].tasks) THEN DiffNext(rm, miss, f + 1, 0)
    ELSE IF rm.features[f].tasks[t].title \in miss
         THEN [pc |-> "diff_task", idx |-> f, tidx |-> t]
         ELSE DiffNext(rm, miss, f, t + 1)

\* parent_issue_for_tasks is None again when the loop reaches the next feature
DiffGoto(at, parent) ==
    /\ Goto(at)
    /\ parent_issue' = IF at.pc = "diff_task" /\ at.idx = idx THEN parent ELSE 0

DiffCompare ==
    \E pr \in BOOLEAN :
        LET gh_titles == ListIssueTitles(gh_issues)
            roadmap_titles == RoadmapTitles(roadmap)
            miss == Missing(roadmap_titles, gh_titles)
        IN  /\ StartRun("diff", [update_local |-> FALSE, dry_run |-> FALSE, proceed |-> pr])
            /\ existing_issue_titles' = gh_titles
            /\ reads' = <<Snapshot>>
            /\ lookup_failed' = FALSE
            /\ missing' = miss
            /\ extra' = Extra(roadmap_titles, gh_titles)
            /\ IF miss # {} /\ pr THEN Goto(DiffNext(roadmap, miss, 1, 0))
               ELSE Goto([pc |-> "done", idx |-> 0, tidx |-> 0])
            /\ NoPlan
            /\ UNCHANGED <<parsing, roadmap, gh_issues, gh_milestones, local_file>>

DiffCreateFeature ==
    /\ pc = "diff_feat"
    /\ \E ok \in BOOLEAN :
        LET feat == roadmap.features[idx]
            number == Len(gh_issues) + 1
        IN
        /\ calls' = Append(calls, Call("create_issue", "feature", feat.title,
                                       Plain(feat.description), IF ok THEN number ELSE 0, ok, idx, 0))
        /\ IF ok
           THEN /\ gh_issues' = CreateIssue(gh_issues, feat.title, Plain(feat.description))
                /\ created_count' = created_count + 1
                /\ UNCHANGED failed_count
           ELSE /\ failed_count' = failed_count + 1
                /\ UNCHANGED <<gh_issues, created_count>>
        /\ DiffGoto(DiffNext(roadmap, missing, idx, 1), 0)
    /\ UNCHANGED <<input, plan, parsing, reads, lookup_failed, gh_milestones, local_file, feature_object_map>>

DiffFindParent ==
    /\ pc = "diff_task"
    /\ parent_issue = 0
    /\ \E ok \in BOOLEAN, pick \in FindIssue(gh_issues) :
        LET found == pick[roadmap.features[idx].title] IN
        /\ reads' = Append(reads, Read("_find_issue", roadmap.features[idx].title, 0))
        /\ lookup_failed' = ~ok
        /\ IF ~ok THEN Fail /\ UNCHANGED parent_issue
           ELSE IF found = 0
           THEN DiffGoto(DiffNext(roadmap, missing, idx, tidx + 1), 0)
           ELSE pc' = pc /\ idx' = idx /\ tidx' = tidx /\ parent_issue' = found
    /\ UNCHANGED <<input, plan, parsing, gh_issues, gh_milestones, local_file,
                   feature_object_map, calls, created_count, failed_count>>

DiffCreateTask ==
    /\ pc = "diff_task"
    /\ parent_issue # 0
    /\ \E ok \in BOOLEAN :
        LET task == roadmap.features[idx].tasks[tidx]
            content == WithParent(task.description, parent_issue)
            number == Len(gh_issues) + 1
        IN
        /\ calls' = Append(calls, Call("create_issue", "task", task.title, content,
                                       IF ok THEN number ELSE 0, ok, idx, tidx))
        /\ IF ok
           THEN /\ gh_issues' = CreateIssue(gh_issues, task.title, content)
                /\ created_count' = created_count + 1
                /\ UNCHANGED failed_count
           ELSE /\ failed_count' = failed_count + 1
                /\ UNCHANGED <<gh_issues, created_count>>
        /\ DiffGoto(DiffNext(roadmap, missing, idx, tidx + 1), parent_issue)
    /\ UNCHANGED <<input, plan, parsing, reads, lookup_failed, gh_milestones, local_file, feature_object_map>>

(***************************************************************************)
(* import-md: the issues an AI provider extracts from a markdown file are  *)
(* created one by one.                                                     *)
(***************************************************************************)
RECURSIVE ExtractedFrom(_, _)
\* the answer of the provider, a list of titles with descriptions: taken to be
\* the headings of the file, the features each followed by its tasks
ExtractedFrom(rm, f) ==
    IF f > Len(rm.features) THEN <<>>
    ELSE <<[title |-> rm.features[f].title, description |-> rm.features[f].description]>>
         \o [t \in 1..Len(rm.features[f].tasks) |->
                [title |-> rm.features[f].tasks[t].title,
                 description |-> rm.features[f].tasks[t].description]]
         \o ExtractedFrom(rm, f + 1)

ExtractIssues(rm) == ExtractedFrom(rm, 1)

ImportMd ==
    \E dr \in BOOLEAN, pr \in BOOLEAN :
        /\ StartRun("import_md", [update_local |-> FALSE, dry_run |-> dr, proceed |-> pr])
        /\ existing_issue_titles' = {}
        /\ reads' = <<>>
        /\ lookup_failed' = FALSE
        /\ NoPlan
        /\ IF ExtractIssues(roadmap) # <<>> /\ Proceeds(dr, pr)
           THEN Goto([pc |-> "import", idx |-> 1, tidx |-> 0])
           ELSE Goto([pc |-> "done", idx |-> 0, tidx |-> 0])
        /\ UNCHANGED <<parsing, roadmap, gh_issues, gh_milestones, local_file>>

ImportCreateIssue ==
    /\ pc = "import"
    /\ \E ok \in BOOLEAN :
        LET issue == ExtractIssues(roadmap)[idx]
            number == Len(gh_issues) + 1
        IN
        /\ calls' = Append(calls, Call("create_issue", "issue", issue.title,
                                       Plain(issue.description), IF ok THEN number ELSE 0, ok, 0, idx))
        /\ IF ok
           THEN /\ gh_issues' = CreateIssue(gh_issues, issue.title, Plain(issue.description))
                /\ created_count' = created_count + 1
                /\ UNCHANGED failed_count
           ELSE /\ failed_count' = failed_count + 1
                /\ UNCHANGED <<gh_issues, created_count>>
        /\ IF idx < Len(ExtractIssues(roadmap))
           THEN Goto([pc |-> "import", idx |-> idx + 1, tidx |-> 0])
           ELSE Goto([pc |-> "done", idx |-> idx, tidx |-> 0])
    /\ UNCHANGED <<input, plan, parsing, reads, lookup_failed, gh_milestones, local_file, feature_object_map, parent_issue>>

Next ==
    \/ SyncClassify
    \/ SyncLookupFails
    \/ SyncCreateMilestone
    \/ SyncCreateFeature
    \/ SyncFindParent
    \/ SyncCreateTask
    \/ SyncUpdateIssue
    \/ SyncCloseIssue
    \/ SyncPopulatePreview
    \/ PopulateMilestone
    \/ PopulateFeature
    \/ PopulateTask
    \/ SyncUpdateLocal
    \/ DiffCompare
    \/ DiffCreateFeature
    \/ DiffFindParent
    \/ DiffCreateTask
    \/ ImportMd
    \/ ImportCreateIssue

Spec == Init /\ [][Next]_vars

(***************************************************************************)
(* The markdown parser and writer.  A file is a sequence of lines and a    *)
(* line a sequence of tokens: <<"###", "F1">> is the line "### F1", <<>>   *)
(* a blank line, <<"-", "**", "M1", "**", "--", "2025-01-01">> an item of  *)
(* the milestone list, "--" standing for the long dash before the date.    *)
(* A title is the sequence of tokens it consists of.                       *)
(***************************************************************************)
MaxLines == 4

\* the lines a file may have below "## Features"
FeatureLines ==
    {<<"###", "F1">>, <<"###", "F2">>, <<"####", "T1">>, <<"####", "T2">>, <<>>, <<"d">>}

MilestoneSections ==
    {<<>>,
     << <<"##", "Milestones">>,
        <<"-", "**", "M1", "**", "--", DueDate>>,
        <<"-", "**", "M2", "**">>,
        <<"-", "**", "M1", "**">> >>}

\* the lines of a file that has no "## Features" heading
FlatLines ==
    {<<"#", "F1">>, <<"#", "F2">>, <<"##", "T1">>, <<"##", "T2">>, <<>>, <<"d">>}

StructuredFiles ==
    {<< <<"#", "Proj">> >> \o ms \o << <<"##", "Features">> >> \o body :
        ms \in MilestoneSections,
        body \in UNION {[1..k -> FeatureLines] : k \in 0..MaxLines}}

FlatFiles == UNION {[1..k -> FlatLines] : k \in 1..MaxLines}

\* files with a code fence in the features block; "FENCE" stands for the line
\* of three backquotes that opens or closes the block
FenceLines == {<<"###", "F1">>, <<"####", "T1">>, <<"FENCE">>, <<>>}

FencedFiles ==
    {<< <<"#", "Proj">>, <<"##", "Features">> >> \o body :
        body \in {b \in UNION {[1..k -> FenceLines] : k \in 1..MaxLines} :
                    \E i \in DOMAIN b : b[i] = <<"FENCE">>}}

\* files with one task whose body has text, bullets and "Tests:" lines
TestsLines == {<<"Tests:">>, <<"-", "t1">>, <<"d">>, <<>>}

TestsFiles ==
    {<< <<"#", "Proj">>, <<"##", "Features">>, <<"###", "F1">>, <<>>, <<"####", "T1">> >>
        \o body : body \in UNION {[1..k -> TestsLines] : k \in 1..MaxLines}}

MarkdownFiles == StructuredFiles \cup FlatFiles \cup FencedFiles \cup TestsFiles

StartsWith(line, marker) == line # <<>> /\ Head(line) = marker

Min(S) == CHOOSE x \in S : \A y \in S : x <= y

Max(S) == CHOOSE x \in S : \A y \in S : x >= y

\* str.strip() of a text of several lines: the blank lines at its ends go
Strip(lines) ==
    LET filled == {i \in DOMAIN lines : lines[i] # <<>>}
    IN  IF filled = {} THEN <<>> ELSE SubSeq(lines, Min(filled), Max(filled))

\* the pieces re.split cuts at the lines `at`: piece n runs from the n-th cut
\* to the line before the next
RECURSIVE Ascending(_)
Ascending(S) == IF S = {} THEN <<>> ELSE <<Min(S)>> \o Ascending(S \ {Min(S)})

PieceEnd(lines, at, i) == Min({j \in at : j > i} \cup {Len(lines) + 1}) - 1

\* "- **name** -- due": the name without the asterisks, the date or <<>> for None
ParseMilestone(line) ==
    LET m_line == Tail(line)
        dash == {i \in DOMAIN m_line : m_line[i] = "--"}
        m_name == IF dash = {} THEN m_line ELSE SubSeq(m_line, 1, Min(dash) - 1)
        m_due == IF dash = {} THEN <<>> ELSE SubSeq(m_line, Min(dash) + 1, Len(m_line))
        plain == {i \in DOMAIN m_name : m_name[i] # "**"}
    IN  [name |-> IF plain = {} THEN <<>> ELSE SubSeq(m_name, Min(plain), Max(plain)),
         due_date |-> m_due]

ParseMilestones(sec_content) ==
    LET items == SelectSeq(Strip(sec_content), LAMBDA l : StartsWith(l, "-"))
    IN  [i \in DOMAIN items |-> ParseMilestone(items[i])]

\* one piece of re.split(r'\n^####\s+', rest_of_feature): its first line is the
\* title, the rest the description
\* l.strip().startswith('- '): a bullet, whatever stands in front of the dash
Unindent(line) ==
    LET inked == {i \in DOMAIN line : line[i] # ""}
    IN  IF inked = {} THEN <<>> ELSE SubSeq(line, Min(inked), Len(line))

IsBullet(line) == Len(Unindent(line)) >= 2 /\ Head(Unindent(line)) = "-"

\* re.split(r'\nTests:\s*\n', task_body): a "Tests:" line cuts the body when a
\* line break stands before it that no earlier cut has taken and a line
\* follows it
TestsCuts(task_body) ==
    LET marks == {i \in DOMAIN task_body :
                    /\ task_body[i] = <<"Tests:">>
                    /\ i >= 2
                    /\ i < Len(task_body)}
        first == IF marks = {} THEN 0 ELSE Min(marks)
        later == {j \in marks : /\ j > first
                                 /\ \E k \in (first + 1)..(j - 1) : task_body[k] # <<>>}
    IN  [first |-> first, second |-> IF later = {} THEN 0 ELSE Min(later)]

ParseTask(task_part) ==
    LET task_lines == Strip(task_part)
        task_body == Tail(task_lines)
        cut == TestsCuts(task_body)
        meta_body == IF cut.first = 0 THEN task_body
                     ELSE SubSeq(task_body, 1, cut.first - 1)
        tests_body == IF cut.first = 0 THEN <<>>
                      ELSE SubSeq(task_body, cut.first + 1,
                                  IF cut.second = 0 THEN Len(task_body) ELSE cut.second - 1)
        items == SelectSeq(tests_body, IsBullet)
    IN  [title |-> Head(task_lines),
         description |-> Strip(meta_body),
         tests |-> [n \in DOMAIN items |-> Tail(Unindent(items[n]))]]

\* a piece of the features section: the title line, the body up to the first
\* "####" that stands behind a line break, and the tasks from there on
ParseFeature(feature_part) ==
    LET feature_lines == Strip(feature_part)
        rest_of_feature == Tail(feature_lines)
        h4 == {k \in DOMAIN rest_of_feature :
                k >= 2 /\ StartsWith(rest_of_feature[k], "####")}
        cuts == Ascending(h4)
        feature_body_part == SubSeq(rest_of_feature, 1, PieceEnd(rest_of_feature, h4, 0))
    IN  [title |-> Head(feature_lines),
         description |-> Strip(feature_body_part),
         tasks |-> [n \in DOMAIN cuts |->
                      ParseTask(<<Tail(rest_of_feature[cuts[n]])>>
                                \o SubSeq(rest_of_feature, cuts[n] + 1,
                                          PieceEnd(rest_of_feature, h4, cuts[n])))]]

\* re.split(r'^###\s+', sec_content.strip()): what stands before the first "###"
\* is a piece of its own unless it is empty
ParseFeatures(sec_content) ==
    LET lines == Strip(sec_content)
        h3 == {i \in DOMAIN lines : StartsWith(lines[i], "###")}
        cuts == Ascending(h3)
        first_part == SubSeq(lines, 1, PieceEnd(lines, h3, 0))
        feature_parts ==
            (IF Strip(first_part) = <<>> THEN <<>> ELSE <<first_part>>)
            \o [n \in DOMAIN cuts |->
                    <<Tail(lines[cuts[n]])>>
                    \o SubSeq(lines, cuts[n] + 1, PieceEnd(lines, h3, cuts[n]))]
        titled == SelectSeq(feature_parts, LAMBDA part : Strip(part) # <<>>)
    IN  [n \in DOMAIN titled |-> ParseFeature(titled[n])]

RECURSIVE CollectSections(_, _, _, _)
\* the sections in the order of the file: each adds to what it is a section of
CollectSections(lines, h2, cuts, acc) ==
    IF cuts = <<>> THEN acc
    ELSE LET header == lines[Head(cuts)]
             sec_content == SubSeq(lines, Head(cuts) + 1, PieceEnd(lines, h2, Head(cuts)))
         IN  CollectSections(lines, h2, Tail(cuts),
                IF Len(header) >= 2 /\ header[2] = "Milestones"
                THEN [acc EXCEPT !.milestones = @ \o ParseMilestones(sec_content)]
                ELSE IF Len(header) >= 2 /\ header[2] = "Features"
                THEN [acc EXCEPT !.features = @ \o ParseFeatures(sec_content)]
                ELSE acc)

parse_markdown(content) ==
    LET stripped == Strip(content)
        named == stripped # <<>> /\ StartsWith(stripped[1], "#")
        lines == IF named THEN Tail(stripped) ELSE stripped
        h2 == {i \in DOMAIN lines : StartsWith(lines[i], "##")}
    IN  CollectSections(lines, h2, Ascending(h2),
            [name |-> IF named THEN Tail(stripped[1]) ELSE <<"roadmap">>,
             description |-> Strip(SubSeq(lines, 1, PieceEnd(lines, h2, 0))),
             milestones |-> <<>>,
             features |-> <<>>])

\* the validator: a feature's title loses the heading markers in front of it,
\* a task is not completed unless the file says so, and of the milestones of
\* one name the first stays
TrimTitle(title) ==
    LET kept == {i \in DOMAIN title : title[i] \notin {"#", "##", "###", "####"}}
    IN  IF kept = {} THEN <<>> ELSE SubSeq(title, Min(kept), Len(title))

validate_roadmap(d) ==
    LET first == {i \in DOMAIN d.milestones :
                    \A j \in 1..(i - 1) : d.milestones[j].name # d.milestones[i].name}
        kept == Ascending(first)
    IN  [name |-> d.name,
         description |-> d.description,
         milestones |-> [n \in DOMAIN kept |-> d.milestones[kept[n]]],
         features |->
            [f \in DOMAIN d.features |->
                [title |-> TrimTitle(d.features[f].title),
                 description |-> d.features[f].description,
                 tasks |-> [t \in DOMAIN d.features[f].tasks |->
                              [title |-> d.features[f].tasks[t].title,
                               description |-> d.features[f].tasks[t].description,
                               tests |-> IF "tests" \in DOMAIN d.features[f].tasks[t]
                                         THEN d.features[f].tasks[t].tests ELSE <<>>,
                               completed |-> FALSE]]]]]

WriteMilestone(m) ==
    <<"-", "**">> \o m.name \o <<"**">>
    \o (IF m.due_date # <<>> THEN <<"--">> \o m.due_date ELSE <<>>)

\* "#### [x] title" or "#### [ ] title", the description, a blank line
WriteTask(task) ==
    << <<"####", IF task.completed THEN "[x]" ELSE "[ ]">> \o task.title >>
    \o task.description
    \o (IF task.tests # <<>>
        THEN << <<>>, <<"Tests:">> >>
             \o [n \in DOMAIN task.tests |-> <<"", "-">> \o task.tests[n]]
        ELSE <<>>)
    \o << <<>> >>

RECURSIVE Flatten(_)
Flatten(parts) == IF parts = <<>> THEN <<>> ELSE Head(parts) \o Flatten(Tail(parts))

WriteFeature(feature) ==
    << <<"###">> \o feature.title >>
    \o feature.description
    \o << <<>> >>
    \o Flatten([t \in DOMAIN feature.tasks |-> WriteTask(feature.tasks[t])])

write_roadmap(d) ==
    (IF d.name # <<>> THEN << <<"#">> \o d.name, <<>> >> ELSE <<>>)
    \o (IF d.description # <<>> THEN d.description \o << <<>> >> ELSE <<>>)
    \o (IF d.milestones # <<>>
        THEN << <<"##", "Milestones">> >>
             \o [i \in DOMAIN d.milestones |-> WriteMilestone(d.milestones[i])]
             \o << <<>> >>
        ELSE <<>>)
    \o << <<"##", "Features">>, <<>> >>
    \o Flatten([f \in DOMAIN d.features |-> WriteFeature(d.features[f])])

(***************************************************************************)
(* The round trip of sync --update-local: the file is parsed, the result   *)
(* validated, the roadmap written back to the file and the file parsed     *)
(* again.                                                                  *)
(***************************************************************************)
ParseInit ==
    /\ roadmap = [milestones |-> <<>>, features |-> <<>>]
    /\ gh_issues = <<>>
    /\ gh_milestones = {}
    /\ NotRunning
    /\ md_file \in MarkdownFiles
    /\ data = NoData
    /\ validated = NoData
    /\ parse_pc = "file"
    /\ NotLoading

running == <<roadmap, gh_issues, gh_milestones, local_file, cmd, opts, pc, plan,
             feature_object_map, idx, tidx, parent_issue, calls, reads, lookup_failed, created_count,
             failed_count, prev_clean>>

ParseRoadmap ==
    /\ parse_pc \in {"file", "rewritten"}
    /\ data' = parse_markdown(md_file)
    /\ parse_pc' = IF parse_pc = "file" THEN "parsed" ELSE "reparsed"
    /\ UNCHANGED <<running, agents, loading, md_file, validated>>

ValidateRoadmap ==
    /\ parse_pc = "parsed"
    /\ validated' = validate_roadmap(data)
    /\ parse_pc' = "validated"
    /\ UNCHANGED <<running, agents, loading, md_file, data>>

WriteRoadmap ==
    /\ parse_pc = "validated"
    /\ md_file' = write_roadmap(validated)
    /\ parse_pc' = "rewritten"
    /\ UNCHANGED <<running, agents, loading, data, validated>>

ParseNext ==
    \/ ParseRoadmap
    \/ ValidateRoadmap
    \/ WriteRoadmap

ParseSpec == ParseInit /\ [][ParseNext]_vars

(***************************************************************************)
(* Loading the roadmap in sync and diff: the file is parsed, or its issues *)
(* are extracted by the AI provider, before the run connects to the        *)
(* repository.                                                             *)
(***************************************************************************)
MaxAiItems == 2

\* the file name of the roadmap, path.name
FileName == "ROADMAP.md"

\* a structured file holds a mapping: an empty one, or a roadmap
Mappings ==
    {NoData,
     [name |-> <<"Proj">>, description |-> <<>>,
      milestones |-> <<[name |-> <<"M1">>, due_date |-> <<>>]>>,
      features |-> <<[title |-> <<"F1">>, description |-> <<>>,
                      tasks |-> <<[title |-> <<"T1">>, description |-> <<>>]>>]>>]}

\* markdown that is no mapping: a roadmap with a feature, headings without a
\* Features section, plain notes
Texts ==
    {<< <<"#", "Proj">>, <<"##", "Features">>, <<"###", "F1">>, <<>>, <<"####", "T1">> >>,
     << <<"#", "F1">>, <<"##", "T1">> >>,
     << <<"d">> >>}

\* the roadmap files: .md with text, with a mapping or with a list at the top
\* level, and .yaml with a mapping or with something else
RoadmapFiles ==
    {[suffix |-> "md", content |-> "text", lines |-> l, mapping |-> NoData] : l \in Texts}
    \cup {[suffix |-> x, content |-> "mapping", lines |-> <<>>, mapping |-> m] :
            x \in {"md", "yaml"}, m \in Mappings}
    \cup {[suffix |-> x, content |-> "list", lines |-> <<>>, mapping |-> NoData] :
            x \in {"md", "yaml"}}

\* diff has no option that forces the extraction
Sources ==
    {src \in {[cmd |-> c, suffix |-> f.suffix, content |-> f.content, lines |-> f.lines,
               mapping |-> f.mapping, force_ai |-> fa, no_ai |-> na] :
                 c \in {"sync", "diff"}, f \in RoadmapFiles, fa \in BOOLEAN, na \in BOOLEAN} :
        src.cmd = "diff" => ~src.force_ai}

parse_roadmapAcceptsAnything(src) ==
    [ok |-> TRUE,
     data |-> IF src.content = "text" THEN parse_markdown(src.lines) ELSE src.mapping]

\* a mapping is returned as it is, a list at the top level raises ValueError,
\* and markdown that is no mapping goes to parse_markdown
parse_roadmap(src) ==
    IF src.content = "mapping" THEN [ok |-> TRUE, data |-> src.mapping]
    ELSE IF src.content = "text" /\ src.suffix = "md"
    THEN [ok |-> TRUE, data |-> parse_markdown(src.lines)]
    ELSE [ok |-> FALSE, data |-> NoData]

\* what the provider sends back: objects with a title (some with heading
\* markers in front) and entries that have none
AiItems ==
    {[has_title |-> TRUE, title |-> <<"A">>, description |-> <<>>],
     [has_title |-> TRUE, title |-> <<"#", "B">>, description |-> << <<"d">> >>],
     [has_title |-> FALSE, title |-> <<>>, description |-> << <<"d">> >>]}

\* the message of the exception of a call that failed
ErrorMessages ==
    {[kind |-> "auth", err_msg |-> <<"Error", "code:", "401", "invalid_api_key">>],
     [kind |-> "auth", err_msg |-> <<"API", "key", "not", "valid">>],
     [kind |-> "other", err_msg |-> <<"Request", "timed", "out">>],
     [kind |-> "other", err_msg |-> <<"Failed", "to", "parse", "JSON", "Response:", "401">>]}

AiOutcomes ==
    {[ok |-> TRUE, items |-> i, kind |-> "none", err_msg |-> <<>>] :
        i \in UNION {[1..k -> AiItems] : k \in 0..MaxAiItems}}
    \cup {[ok |-> FALSE, items |-> <<>>, kind |-> e.kind, err_msg |-> e.err_msg] :
            e \in ErrorMessages}

\* "invalid_api_key" in err_msg or "401" in err_msg or "API key is invalid" in err_msg
IsInvalidKey(err_msg) ==
    \E i \in DOMAIN err_msg : err_msg[i] \in {"invalid_api_key", "401", "API key is invalid"}

\* itm['title'].lstrip('# ').strip()
LStrip(title) ==
    LET kept == {i \in DOMAIN title : title[i] \notin {"#", "##", "###", "####"}}
    IN  IF kept = {} THEN <<>> ELSE SubSeq(title, Min(kept), Len(title))

ExtractResultKeepsAll(items) ==
    [i \in DOMAIN items |->
        [title |-> LStrip(items[i].title), description |-> items[i].description]]

\* the result of extract_issues_from_markdown: the entries that have a title
ExtractResult(items) ==
    LET titled == SelectSeq(items, LAMBDA itm : itm.has_title)
    IN  [i \in DOMAIN titled |->
            [title |-> LStrip(titled[i].title), description |-> titled[i].description]]

\* the extracted issues as the tasks of a single feature
SyntheticRoadmap(issues) ==
    [name |-> <<"Roadmap", "from", FileName>>,
     description |-> <<>>,
     milestones |-> <<>>,
     features |->
        <<[title |-> <<"AI-Extracted", "Issues", "from", FileName>>,
           description |-> <<>>,
           tasks |-> [i \in DOMAIN issues |->
                        [title |-> issues[i].title, description |-> issues[i].description]]]>>]

IsEmptyRoadmap(v) == v.features = <<>> /\ v.milestones = <<>>

TitlesOf(v) ==
    {v.features[f].title : f \in DOMAIN v.features}
    \cup UNION {{v.features[f].tasks[t].title : t \in DOMAIN v.features[f].tasks} :
                  f \in DOMAIN v.features}

LoadInit ==
    /\ roadmap = [milestones |-> <<>>, features |-> <<>>]
    /\ gh_issues = <<>>
    /\ gh_milestones = {}
    /\ NotRunning
    /\ md_file = <<>>
    /\ data = NoData
    /\ validated = NoData
    /\ parse_pc = "none"
    /\ load_pc = "start"
    /\ source \in Sources
    /\ use_ai = FALSE
    /\ attempts = 0
    /\ ai_calls = <<>>
    /\ new_keys = 0
    /\ connected = FALSE
    /\ raw_roadmap_data = NoData
    /\ validated_roadmap = NoData
    /\ roadmap_title_set = {}

parser_state == <<md_file, data, validated, parse_pc>>

\* the run ends with sys.exit(1)
Fatal == load_pc' = "fatal"

\* up to the first call of the provider: whether the roadmap is extracted by
\* the provider (forced, or offered for markdown that does not parse or has
\* neither features nor milestones, and accepted), the key, and otherwise the
\* parse of the file
LoadRoadmap ==
    /\ load_pc = "start"
    /\ \E answer \in BOOLEAN, have_key \in BOOLEAN :
        LET pre == parse_roadmap(source)
            offered == /\ ~source.force_ai
                       /\ ~source.no_ai
                       /\ source.suffix = "md"
                       /\ (~pre.ok \/ IsEmptyRoadmap(validate_roadmap(pre.data)))
            ai == source.force_ai \/ (offered /\ answer)
        IN  /\ use_ai' = ai
            /\ IF ai
               THEN /\ IF have_key THEN load_pc' = "extract" ELSE Fatal
                    /\ raw_roadmap_data' = NoData
                    /\ validated_roadmap' =
                            IF source.cmd = "diff" /\ pre.ok
                            THEN validate_roadmap(pre.data) ELSE NoData
                    /\ roadmap_title_set' = {}
               ELSE IF pre.ok
               THEN /\ load_pc' = "loaded"
                    /\ raw_roadmap_data' = pre.data
                    /\ validated_roadmap' = validate_roadmap(pre.data)
                    /\ roadmap_title_set' =
                            IF source.cmd = "diff"
                            THEN TitlesOf(validate_roadmap(pre.data)) ELSE {}
               ELSE /\ Fatal
                    /\ UNCHANGED <<raw_roadmap_data, validated_roadmap, roadmap_title_set>>
    /\ UNCHANGED <<running, agents, parser_state, source, attempts, ai_calls, new_keys, connected>>

\* one call of extract_issues_from_markdown: its issues become the roadmap;
\* after the first failure whose message tells of an invalid key a new key is
\* asked for and the call made once more; any other failure ends the run
AiExtract ==
    /\ load_pc = "extract"
    /\ \E outcome \in AiOutcomes, entered \in BOOLEAN :
        /\ ai_calls' = Append(ai_calls, outcome)
        /\ IF outcome.ok
           THEN LET issues == ExtractResult(outcome.items) IN
                /\ load_pc' = "loaded"
                /\ IF source.cmd = "sync"
                   THEN /\ raw_roadmap_data' = SyntheticRoadmap(issues)
                        /\ validated_roadmap' = validate_roadmap(SyntheticRoadmap(issues))
                        /\ UNCHANGED roadmap_title_set
                   ELSE /\ roadmap_title_set' = {issues[i].title : i \in DOMAIN issues}
                        /\ UNCHANGED <<raw_roadmap_data, validated_roadmap>>
                /\ UNCHANGED <<attempts, new_keys>>
           ELSE IF attempts = 0 /\ IsInvalidKey(outcome.err_msg)
           THEN /\ IF entered
                   THEN /\ attempts' = attempts + 1
                        /\ new_keys' = new_keys + 1
                        /\ UNCHANGED load_pc
                   ELSE Fatal /\ UNCHANGED <<attempts, new_keys>>
                /\ UNCHANGED <<raw_roadmap_data, validated_roadmap, roadmap_title_set>>
           ELSE /\ Fatal
                /\ UNCHANGED <<attempts, new_keys, raw_roadmap_data, validated_roadmap,
                               roadmap_title_set>>
    /\ UNCHANGED <<running, agents, parser_state, source, use_ai, connected>>

\* GitHubClient(actual_token, repo): the first call that goes to the tracker
Connect ==
    /\ load_pc = "loaded"
    /\ connected' = TRUE
    /\ \E ok \in BOOLEAN : IF ok THEN load_pc' = "connected" ELSE Fatal
    /\ UNCHANGED <<running, agents, parser_state, source, use_ai, attempts, ai_calls, new_keys,
                   raw_roadmap_data, validated_roadmap, roadmap_title_set>>

LoadNext ==
    \/ LoadRoadmap
    \/ AiExtract
    \/ Connect

LoadSpec == LoadInit /\ [][LoadNext]_vars

(***************************************************************************)
(* What the claims speak of, read off the state of a run.                  *)
(***************************************************************************)
\* a run of sync that reconciles the tracker (not --update-local)
SyncRun == cmd = "sync" /\ pc # "idle" /\ ~opts.update_local

\* the run is confirmed and is no dry run
Confirmed == Proceeds(opts.dry_run, opts.proceed)

\* the number of actions the summary of the sync run announces
PlannedActions ==
    IF existing_issue_titles = {}
    THEN Len(roadmap.milestones) + Len(roadmap.features) + Len(TaskEntries(roadmap))
    ELSE Len(milestones_to_create) + Len(features_to_create)
         + SumSeq(GroupSizes(tasks_to_create))
         + Len(tasks_to_update) + Len(tasks_to_close)

CreateCalls == {i \in DOMAIN calls : calls[i].op = "create_issue"}

FailedCalls == {i \in DOMAIN calls : ~calls[i].ok}

\* the features (t = 0) and tasks of the roadmap whose title the snapshot lacks
MissingEntries ==
    LET entries == TaskEntries(roadmap) IN
    {<<f, 0>> : f \in {g \in DOMAIN roadmap.features :
                        roadmap.features[g].title \notin existing_issue_titles}}
    \cup {<<entries[k].f, entries[k].t>> :
            k \in {j \in DOMAIN entries :
                    TaskOf(roadmap, entries[j]).title \notin existing_issue_titles}}

EntryTitle(e) ==
    IF e[2] = 0 THEN roadmap.features[e[1]].title
    ELSE roadmap.features[e[1]].tasks[e[2]].title

CallsFor(e) == {i \in CreateCalls : calls[i].f = e[1] /\ calls[i].t = e[2]}

(***************************************************************************)
(* C1  Idempotence of sync.  As the specification states it: a second sync *)
(* run, started right after a first one that applied all its changes and   *)
(* with the roadmap and the tracker untouched in between, computes no      *)
(* action at all.  The code does not behave so: a task with a description  *)
(* is created with the parent line in its body and the second run plans an *)
(* update of it; a completed task is created open and the second run plans *)
(* to close it.                                                            *)
(***************************************************************************)
C1_SecondSyncComputesNoAction ==
    (SyncRun /\ prev_clean) => PlannedActions = 0

(***************************************************************************)
(* C2  Parent linking.  As the specification states it: a task issue that  *)
(* sync creates in the run that also creates the issue of the feature the  *)
(* task belongs to carries "Parent issue: #N" with N the number of that    *)
(* feature's issue.  The code keys the created features by title, so two   *)
(* features of one title share the number of the one created last.         *)
(***************************************************************************)
C2_TaskLinkedToOwnFeature ==
    SyncRun =>
        \A i \in CreateCalls, j \in CreateCalls :
            (/\ calls[i].kind = "task" /\ calls[i].ok
             /\ calls[j].kind = "feature" /\ calls[j].ok
             /\ calls[j].f = calls[i].f)
            => calls[i].body.parent = calls[j].number

Rank(c) ==
    CASE c.kind = "milestone" -> 1
      [] c.kind = "feature" -> 2
      [] c.kind = "task" -> 3
      [] c.kind = "update" -> 4
      [] OTHER -> 5

\* (f, t) of the earlier call comes before (f, t) of the later in the roadmap
Before(c, d) == c.f < d.f \/ (c.f = d.f /\ c.t < d.t)

InEffect(c) ==
    CASE c.op = "create_milestone" -> c.title \in gh_milestones
      [] c.op = "create_issue" ->
            /\ c.number \in DOMAIN gh_issues
            /\ gh_issues[c.number].title = c.title
            /\ gh_issues[c.number].body = c.body
      [] c.op = "update_issue" -> gh_issues[c.number].body = c.body
      [] OTHER -> gh_issues[c.number].state = "closed"

ParentFindable(e) ==
    \/ roadmap.features[e[1]].title \in existing_issue_titles
    \/ \E i \in CallsFor(<<e[1], 0>>) : calls[i].ok

WasOpen(n) ==
    \/ gh_issues[n].state = "open"
    \/ \E i \in DOMAIN calls :
        calls[i].op = "close_issue" /\ calls[i].ok /\ calls[i].number = n

CloseCalls(n) == {i \in DOMAIN calls : calls[i].op = "close_issue" /\ calls[i].number = n}

SnapshotIssues ==
    1..(Len(gh_issues) - Cardinality({i \in CreateCalls : calls[i].ok}))

ScenarioA ==
    << <<"#", "Proj">>, <<"##", "Features">>, <<"###", "F1">>, <<"####", "T1">> >>

\* the lines of the file below "## Features"
FeaturesBlock ==
    LET at == {i \in DOMAIN md_file : md_file[i] = <<"##", "Features">>}
    IN  IF at = {} THEN <<>> ELSE SubSeq(md_file, Min(at) + 1, Len(md_file))

\* the titles of the "####" lines between the "###" line at i and the next one
TaskHeadings(block, h3, i) ==
    LET part == SubSeq(block, i + 1, PieceEnd(block, h3, i))
        lines == SelectSeq(part, LAMBDA l : StartsWith(l, "####"))
    IN  [n \in DOMAIN lines |-> Tail(lines[n])]

\* the issues _populate_repo_from_roadmap creates, in order
PopulateOrder(rm) ==
    Flatten([f \in DOMAIN rm.features |->
                <<[kind |-> "feature", title |-> rm.features[f].title]>>
                \o [t \in DOMAIN rm.features[f].tasks |->
                        [kind |-> "task", title |-> rm.features[f].tasks[t].title]]])

C9_HeadingsNest ==
    parse_pc = "parsed" =>
        LET block == FeaturesBlock
            h3 == {i \in DOMAIN block : StartsWith(block[i], "###")}
            cuts == Ascending(h3)
            before == Len(data.features) - Len(cuts)
        IN  /\ before >= 0
            /\ \A n \in DOMAIN cuts :
                /\ data.features[before + n].title = Tail(block[cuts[n]])
                /\ [t \in DOMAIN data.features[before + n].tasks |->
                        data.features[before + n].tasks[t].title]
                   = TaskHeadings(block, h3, cuts[n])
            /\ md_file = ScenarioA =>
                PopulateOrder(validate_roadmap(data))
                    = <<[kind |-> "feature", title |-> <<"F1">>],
                        [kind |-> "task", title |-> <<"T1">>]>>

(***************************************************************************)
(* C10  Round trip.  As the specification states it: a file that is        *)
(* parsed, validated, written by write_roadmap and parsed again yields the *)
(* milestone names and due dates, the feature titles and the task titles   *)
(* of the roadmap that was written.  The code writes "#### [ ] title" and  *)
(* reads the checkbox back as part of the title.                           *)
(***************************************************************************)
FeatureTitles(d) == [f \in DOMAIN d.features |-> d.features[f].title]

TaskTitles(d) ==
    [f \in DOMAIN d.features |->
        [t \in DOMAIN d.features[f].tasks |-> d.features[f].tasks[t].title]]

C10_RoundTripKeepsTitles ==
    parse_pc = "reparsed" =>
        /\ data.milestones = validated.milestones
        /\ FeatureTitles(data) = FeatureTitles(validated)
        /\ TaskTitles(data) = TaskTitles(validated)

(***************************************************************************)
(* C11  Flat mode.  As the specification states it: in a file without a    *)
(* "## Features" heading every "#" heading is a feature and every "##"     *)
(* heading other than "## Milestones" a task of the feature before it, so  *)
(* that the titles of the roadmap hold all those headings.  parse_markdown *)
(* has no such mode: the first "#" line is the name of the roadmap, a      *)
(* "##" section that is neither Milestones nor Features is passed over,    *)
(* and the roadmap has no features.                                        *)
(***************************************************************************)
HasFeaturesHeading(file) == \E i \in DOMAIN file : file[i] = <<"##", "Features">>

\* the titles of the "##" lines between the "#" line at i and the next one
FlatTasks(file, h1, i) ==
    LET part == SubSeq(file, i + 1, PieceEnd(file, h1, i))
        lines == SelectSeq(part, LAMBDA l : StartsWith(l, "##") /\ l # <<"##", "Milestones">>)
    IN  [n \in DOMAIN lines |-> Tail(lines[n])]

C11_FlatModeFallback ==
    (parse_pc = "validated" /\ ~HasFeaturesHeading(md_file)) =>
        LET h1 == {i \in DOMAIN md_file : StartsWith(md_file[i], "#")}
            cuts == Ascending(h1)
        IN  /\ FeatureTitles(validated) = [n \in DOMAIN cuts |-> Tail(md_file[cuts[n]])]
            /\ TaskTitles(validated) = [n \in DOMAIN cuts |-> FlatTasks(md_file, h1, cuts[n])]

(***************************************************************************)
(* C12  Tasks under an existing feature.  In a sync on a repository with   *)
(* issues whose comparison no failing read has cut short,                  *)
(* a task whose title the snapshot lacks and whose feature's title         *)
(* the snapshot holds is planned for creation under that title; a          *)
(* confirmed run that reaches its end has created it with one create_issue *)
(* whose parent line names an issue of the snapshot that has the feature's *)
(* title, found by the lookup.  No create_issue is for a title of the      *)
(* snapshot, and the parent line of every created task names an issue that *)
(* has the title of the task's feature (in diff as well).                  *)
(***************************************************************************)
\* the tasks the snapshot lacks, under a feature the snapshot holds
TasksUnderExistingFeature ==
    {e \in MissingEntries :
        e[2] # 0 /\ roadmap.features[e[1]].title \in existing_issue_titles}

Planned(e) ==
    \E g \in DOMAIN tasks_to_create :
        /\ tasks_to_create[g].key = roadmap.features[e[1]].title
        /\ \E k \in DOMAIN tasks_to_create[g].tasks :
              tasks_to_create[g].tasks[k] = [f |-> e[1], t |-> e[2]]

C13_RetryOnlyAfterAuthFailure ==
    /\ Len(ai_calls) <= 2
    /\ Len(ai_calls) = 2 =>
        /\ ~ai_calls[1].ok
        /\ ai_calls[1].kind = "auth"
        /\ new_keys = 1
    /\ \A i \in DOMAIN ai_calls :
        (~ai_calls[i].ok /\ (i = 2 \/ ai_calls[i].kind # "auth")) => load_pc = "fatal"

(***************************************************************************)
(* C14  Synthetic feature.  When sync uses the extraction (forced, or      *)
(* offered for a markdown file that does not parse or has neither features *)
(* nor milestones, and accepted at the prompt), the roadmap it goes on     *)
(* with has no milestones and the one feature                              *)
(* "AI-Extracted Issues from <file>", whose tasks are the items the        *)
(* extraction returns, one task each and in their order: the entries of    *)
(* the provider's answer that have a title, the title without heading      *)
(* markers in front.  Without the extraction the roadmap is the parsed     *)
(* file.                                                                   *)
(***************************************************************************)
Loaded == load_pc \in {"loaded", "connected"}

\* the entries of the provider's last answer
ReturnedItems == ai_calls[Len(ai_calls)].items

SyntheticTitle == <<"AI-Extracted", "Issues", "from", FileName>>

C14_SyntheticFeatureOfTitledItems ==
    (source.cmd = "sync" /\ Loaded) =>
        LET pre == parse_roadmap(source)
            titled == SelectSeq(ReturnedItems, LAMBDA itm : itm.has_title)
        IN  /\ use_ai =>
                /\ source.force_ai
                    \/ (/\ ~source.no_ai
                        /\ source.suffix = "md"
                        /\ (~pre.ok \/ IsEmptyRoadmap(validate_roadmap(pre.data))))
                /\ ai_calls # <<>>
                /\ validated_roadmap.milestones = <<>>
                /\ Len(validated_roadmap.features) = 1
                /\ validated_roadmap.features[1].title = SyntheticTitle
                /\ Len(validated_roadmap.features[1].tasks) = Len(titled)
                /\ \A i \in DOMAIN titled :
                    /\ validated_roadmap.features[1].tasks[i].title = LStrip(titled[i].title)
                    /\ validated_roadmap.features[1].tasks[i].description
                            = titled[i].description
            /\ ~use_ai =>
                /\ ai_calls = <<>>
                /\ pre.ok
                /\ validated_roadmap = validate_roadmap(pre.data)

\* an empty markdown roadmap has been replaced by the synthetic feature, and
\* the provider's answer held an entry without a title
C14_EmptyRoadmapExtracted ==
    /\ source.cmd = "sync"
    /\ Loaded
    /\ use_ai
    /\ ~source.force_ai
    /\ parse_roadmap(source).ok
    /\ Len(ReturnedItems) = 2
    /\ Len(validated_roadmap.features[1].tasks) = 1

(***************************************************************************)
(* C15  Parse errors.  A structured file whose top level is no mapping     *)
(* ends sync before any call to the provider or to the tracker when the    *)
(* extraction is not used: the file is not markdown, or --no-ai is given,  *)
(* or the offer is declined.  For a markdown file the run offers the       *)
(* extraction instead; once it is accepted (or forced) the run calls the   *)
(* provider and, if that succeeds, goes on to the tracker.  The tracker is *)
(* never called before the roadmap is loaded.                              *)
(***************************************************************************)
Malformed == source.content = "list"

C15_MalformedFatalUnlessExtracted ==
    /\ connected => load_pc \in {"connected", "fatal"}
    /\ (source.cmd = "sync" /\ Malformed) =>
        /\ use_ai => source.force_ai \/ (source.suffix = "md" /\ ~source.no_ai)
        /\ (~use_ai /\ load_pc # "start") =>
            /\ load_pc = "fatal"
            /\ ai_calls = <<>>
            /\ ~connected
        /\ connected => use_ai /\ ai_calls[Len(ai_calls)].ok

\* a sync on a malformed markdown file has ended without a call although the
\* extraction was on offer
C15_MalformedEndedRun ==
    /\ source.cmd = "sync"
    /\ Malformed
    /\ source.suffix = "md"
    /\ ~source.no_ai
    /\ ~use_ai
    /\ load_pc = "fatal"

\* the claim as the specification words it: a malformed file ends sync with no
\* call made
C15_MalformedAlwaysFatal ==
    (source.cmd = "sync" /\ Malformed) =>
        /\ load_pc \in {"start", "fatal"}
        /\ ai_calls = <<>>
        /\ ~connected

(***************************************************************************)
(* C16  Single snapshot.  A sync or diff run reads the whole list of the   *)
(* tracker's issues exactly once, as its first read.  Reads by title go on *)
(* after that: the comparison of sync looks up every milestone and every   *)
(* task whose title the snapshot holds, and when the changes are applied   *)
(* the parent of tasks to create is looked up by the title of their        *)
(* feature: in sync once for each group of tasks whose feature the         *)
(* snapshot holds, in diff before a missing task of a feature as long as   *)
(* no parent has been found for that feature.                              *)
(***************************************************************************)
InRun == cmd \in {"sync", "diff"} /\ pc # "idle"

WholeListReads == {i \in DOMAIN reads : reads[i].op \in {"get_all_issue_titles", "get_all_issues"}}

\* how many reads the comparison of the run makes
ComparisonReads ==
    IF cmd = "sync" /\ ~opts.update_local /\ existing_issue_titles # {}
    THEN 1 + Len(roadmap.milestones)
           + Cardinality({k \in DOMAIN TaskEntries(roadmap) :
                            TaskOf(roadmap, TaskEntries(roadmap)[k]).title
                                \in existing_issue_titles})
    ELSE 1

\* the reads made after the comparison
LaterReads == {i \in DOMAIN reads : i > ComparisonReads}

C16_OneSnapshotThenParentLookups ==
    InRun =>
        /\ WholeListReads = {1}
        /\ (cmd = "sync" /\ opts.update_local) =>
                \A i \in DOMAIN reads : i > 1 => reads[i].op = "get_issue"
        /\ (cmd = "sync" /\ ~opts.update_local) =>
            /\ \A i \in LaterReads :
                /\ reads[i].op = "_find_issue"
                /\ reads[i].title \in existing_issue_titles
                /\ \E g \in DOMAIN tasks_to_create : tasks_to_create[g].key = reads[i].title
            /\ \A i, j \in LaterReads : reads[i].title = reads[j].title => i = j
        /\ cmd = "diff" =>
            \A i \in LaterReads :
                /\ reads[i].op = "_find_issue"
                /\ \E f \in DOMAIN roadmap.features :
                    /\ roadmap.features[f].title = reads[i].title
                    /\ \E t \in DOMAIN roadmap.features[f].tasks :
                            roadmap.features[f].tasks[t].title \in missing

\* sync has looked up the feature of a task it is about to create, a title
\* that the comparison had found in the snapshot
C16_ParentLookedUpAfterComparison ==
    /\ SyncRun
    /\ pc = "apply_task"
    /\ tidx = 1
    /\ LaterReads # {}
    /\ \E f \in DOMAIN roadmap.features :
            roadmap.features[f].title = reads[Len(reads)].title

\* the claim as the specification words it: one snapshot, and no read for a
\* title of the roadmap once the comparison is over
C16_NoReadAfterComparison ==
    InRun =>
        /\ WholeListReads = {1}
        /\ \A i \in LaterReads : reads[i].title \notin RoadmapTitles(roadmap)

(***************************************************************************)
(* C17  Feature before its tasks.  In a sync run every call that creates   *)
(* the issue of a task comes after the number of the task's feature is     *)
(* known: after a successful call that created an issue of the feature's   *)
(* title in this run, whose number the task's body names, or, for a        *)
(* feature the snapshot holds, after the lookup of that title, whose       *)
(* result the body names.                                                  *)
(***************************************************************************)
TaskCreates == {k \in DOMAIN calls : calls[k].op = "create_issue" /\ calls[k].kind = "task"}

\* the call that created the parent named by the k-th call, made before it
CreatedBefore(k) ==
    {j \in 1..(k - 1) :
        /\ calls[j].kind = "feature"
        /\ calls[j].ok
        /\ calls[j].title = roadmap.features[calls[k].f].title
        /\ calls[j].number = calls[k].body.parent}

LookedUpBefore(k) ==
    LET title == roadmap.features[calls[k].f].title IN
    /\ title \in existing_issue_titles
    /\ \E i \in DOMAIN reads : reads[i] = Read("_find_issue", title, 0)
    /\ calls[k].body.parent \in DOMAIN gh_issues
    /\ gh_issues[calls[k].body.parent].title = title

C17_FeatureNumberKnownBeforeTask ==
    SyncRun =>
        \A k \in TaskCreates :
            /\ calls[k].body.parent # 0
            /\ CreatedBefore(k) # {} \/ LookedUpBefore(k)

\* on a repository that has issues, a run has created a feature and then a
\* task under the number the create call returned
C17_TaskUnderFeatureJustCreated ==
    /\ SyncRun
    /\ existing_issue_titles # {}
    /\ \E k \in TaskCreates : calls[k].ok /\ CreatedBefore(k) # {}

(***************************************************************************)
(* C18  Compute, then execute.  In a sync run the lists of what to create, *)
(* update and close are drawn up in a step that issues no mutation, and    *)
(* every step that issues a mutation leaves the lists as they are and adds *)
(* one call to those issued before.  The lists are those of the snapshot   *)
(* for as long as the run lasts; on a repository without issues there is   *)
(* nothing to compare, the lists stay empty and every item is created.     *)
(***************************************************************************)
C18_Step ==
    (cmd' = "sync" /\ ~opts'.update_local) =>
        /\ (plan' # plan \/ cmd # "sync" \/ pc \in {"idle", "done"}) =>
            /\ calls' = <<>>
            /\ IF pc' = "aborted" THEN PlanLens' = <<0, 0, 0, 0, 0>>
               ELSE IF existing_issue_titles' # {}
               THEN /\ features_to_create' = FeaturesToCreate(roadmap', existing_issue_titles')
                    /\ tasks_to_create' = TasksToCreate(roadmap', existing_issue_titles')
               ELSE PlanLens' = <<0, 0, 0, 0, 0>>
        /\ (calls' # calls /\ calls' # <<>>) =>
            /\ plan' = plan
            /\ Len(calls') = Len(calls) + 1
            /\ SubSeq(calls', 1, Len(calls)) = calls
            /\ existing_issue_titles' = {} =>
                    calls'[Len(calls')].op \in {"create_milestone", "create_issue"}

C18_ComputeThenExecute == [][C18_Step]_vars

\* a run that had features to create and tasks to update has applied both
C18_PlanOfTwoKindsApplied ==
    /\ SyncRun
    /\ features_to_create # <<>>
    /\ tasks_to_update # <<>>
    /\ \E k \in DOMAIN calls : calls[k].op = "create_issue"
    /\ \E k \in DOMAIN calls : calls[k].op = "update_issue"

(***************************************************************************)
(* C19  Milestone creation.  As the specification states it: sync calls    *)
(* create_milestone for a milestone of the roadmap only when the tracker   *)
(* has no milestone of that name, so that no milestone the tracker already *)
(* has is created again, whichever way the run takes.  On a repository     *)
(* without issues sync creates every milestone of the roadmap without      *)
(* looking it up.                                                          *)
(***************************************************************************)
C19_Step ==
    (/\ cmd' = "sync"
     /\ Len(calls') = Len(calls) + 1
     /\ calls'[Len(calls')].op = "create_milestone")
    => calls'[Len(calls')].title \notin gh_milestones

C19_ExistingMilestoneNotCreatedAgain == [][C19_Step]_vars

(***************************************************************************)
(* C20  Body updates.  When sync compares the roadmap with a repository    *)
(* that has issues, tasks_to_update holds, in the order of the roadmap,    *)
(* one entry for every task whose title the snapshot holds, whose lookup   *)
(* finds an issue that the run is not about to close, and whose            *)
(* description is not empty and differs from the body of that issue; the   *)
(* entry names that issue and the description.  Nothing else is in the     *)
(* list: no task without a description or with the body of its issue, no   *)
(* task that is completed while its issue is open, and no feature.  The    *)
(* update calls of the run are the entries of the list in their order.     *)
(***************************************************************************)
Compared == SyncRun /\ existing_issue_titles # {} /\ pc # "aborted"

\* the issue that the lookup of the comparison returned for a title
Remote(title) == gh_issues[lookup[title]]

NeedsUpdate(e) ==
    LET task == TaskOf(roadmap, e) IN
    /\ task.title \in existing_issue_titles
    /\ lookup[task.title] # 0
    /\ ~(task.completed /\ Remote(task.title).state = "open")
    /\ task.description # ""
    /\ Remote(task.title).body # [text |-> task.description, parent |-> 0]

UpdateCalls == SelectSeq(calls, LAMBDA c : c.op = "update_issue")

C20_TasksUpdatedUnlessClosed ==
    Compared =>
        /\ calls = <<>> =>
            LET due == SelectSeq(TaskEntries(roadmap), NeedsUpdate) IN
            /\ Len(tasks_to_update) = Len(due)
            /\ \A k \in DOMAIN due :
                /\ tasks_to_update[k].number = lookup[TaskOf(roadmap, due[k]).title]
                /\ tasks_to_update[k].body.text = TaskOf(roadmap, due[k]).description
        /\ calls # <<>> =>
            LET made == UpdateCalls IN
            /\ Len(made) <= Len(tasks_to_update)
            /\ \A k \in DOMAIN made :
                /\ made[k].number = tasks_to_update[k].number
                /\ made[k].body = tasks_to_update[k].body

\* the comparison has listed a task for an update and has passed over a
\* feature whose issue has another body than its description
C20_TaskListedFeaturePassedOver ==
    /\ Compared
    /\ calls = <<>>
    /\ tasks_to_update # <<>>
    /\ \E f \in DOMAIN roadmap.features :
        /\ roadmap.features[f].title \in existing_issue_titles
        /\ Remote(roadmap.features[f].title).body # Plain(roadmap.features[f].description)

\* the claim as the specification words it: every feature and every task
\* whose title the snapshot holds and whose description is not empty and
\* differs from the body of its issue has exactly one entry in the list, and
\* the other items have none
C20_EveryItemUpdated ==
    (Compared /\ calls = <<>>) =>
        LET Entries(title, description) ==
                {k \in DOMAIN tasks_to_update :
                    /\ tasks_to_update[k].number = lookup[title]
                    /\ tasks_to_update[k].body.text = description}
            Differs(title, description) ==
                /\ title \in existing_issue_titles
                /\ description # ""
                /\ Remote(title).body # Plain(description)
            Holds(title, description) ==
                IF Differs(title, description)
                THEN Cardinality(Entries(title, description)) = 1
                ELSE Entries(title, description) = {}
        IN  /\ \A f \in DOMAIN roadmap.features :
                Holds(roadmap.features[f].title, roadmap.features[f].description)
            /\ \A k \in DOMAIN TaskEntries(roadmap) :
                Holds(TaskOf(roadmap, TaskEntries(roadmap)[k]).title,
                      TaskOf(roadmap, TaskEntries(roadmap)[k]).description)

(***************************************************************************)
(* C21  Lookup failure and mutation.  As the specification states it: if   *)
(* any read of the tracker made by sync fails, the run aborts and no       *)
(* mutation of the tracker has been performed in that run.                 *)
(***************************************************************************)
\* a sync run, of either mode, in which a read of the tracker has raised and
\* nothing has caught it
LookupFailure == cmd = "sync" /\ pc # "idle" /\ lookup_failed

C21_LookupFailureBeforeAnyMutation ==
    LookupFailure => pc \in {"aborted", "failed"} /\ calls = <<>>

(***************************************************************************)
(* C21, as the code has it.  A read of the comparison that fails (the      *)
(* listing of the titles or of the issues, the lookup of a milestone, the  *)
(* lookup of a task the snapshot holds) ends the run before any mutation   *)
(* and before the roadmap file is written.  The lookup of the parent of a  *)
(* group of tasks is made while the plan is applied: when it fails the run *)
(* ends as well, and what the run has issued before stays: calls that all  *)
(* succeeded, none of them an update or a close.                           *)
(***************************************************************************)
C21_ComparisonFailureBeforeAnyMutation ==
    LookupFailure =>
        /\ pc \in {"aborted", "failed"}
        /\ local_file = <<>>
        /\ pc = "aborted" => calls = <<>>
        /\ pc = "failed" =>
            /\ Len(reads) \in LaterReads
            /\ reads[Len(reads)].op = "_find_issue"
            /\ reads[Len(reads)].title \in existing_issue_titles
            /\ \E f \in DOMAIN roadmap.features :
                    roadmap.features[f].title = reads[Len(reads)].title
            /\ \A k \in DOMAIN calls :
                /\ calls[k].ok
                /\ calls[k].op \in {"create_milestone", "create_issue"}

\* the lookup of a milestone or of a task has failed in the comparison of a
\* run that had something to create
C21_ComparisonCutShort ==
    /\ LookupFailure
    /\ ~opts.update_local
    /\ pc = "aborted"
    /\ Len(reads) > 1
    /\ MissingEntries # {}

\* the lookup of a parent has failed after the run had created an issue
C21_ParentLookupFailedAfterCreate ==
    /\ LookupFailure
    /\ pc = "failed"
    /\ \E k \in DOMAIN calls : calls[k].op = "create_issue" /\ calls[k].ok

(***************************************************************************)
(* C22  Duplicate titles are not merged.  When the roadmap has k features  *)
(* (or k tasks) of one title and the snapshot lacks that title, a          *)
(* confirmed sync that reaches its end has issued one successful           *)
(* create_issue for each of them, each for its own entry of the roadmap    *)
(* and each returning its own number, so that the tracker holds k issues   *)
(* of that title more than before.                                         *)
(***************************************************************************)
\* the features (t = 0) or the tasks of the roadmap that have the title
EntriesTitled(kind, title) ==
    {e \in MissingEntries : EntryTitle(e) = title /\ ((kind = "feature") <=> (e[2] = 0))}

\* the create calls of the run for the title
CreatesTitled(kind, title) ==
    {i \in CreateCalls : calls[i].kind = kind /\ calls[i].title = title}

C22_DuplicateTitlesCreatedSeparately ==
    (SyncRun /\ pc = "done" /\ Confirmed) =>
        \A title \in Titles \ existing_issue_titles :
            /\ \A kind \in {"feature", "task"} :
                /\ Cardinality(CreatesTitled(kind, title)) = Cardinality(EntriesTitled(kind, title))
                /\ \A e \in EntriesTitled(kind, title) :
                    \E i \in CreatesTitled(kind, title) :
                        calls[i].ok /\ calls[i].f = e[1] /\ calls[i].t = e[2]
                /\ \A i, j \in CreatesTitled(kind, title) :
                    calls[i].number = calls[j].number => i = j
            /\ Cardinality({n \in DOMAIN gh_issues : gh_issues[n].title = title})
                 = Cardinality(EntriesTitled("feature", title))
                   + Cardinality(EntriesTitled("task", title))

\* after a comparison, a run has created two tasks of one title that the
\* snapshot lacked
C22_TwoTasksOfOneTitleCreated ==
    /\ Compared
    /\ pc = "done"
    /\ Confirmed
    /\ \E title \in Titles \ existing_issue_titles :
           Cardinality(CreatesTitled("task", title)) >= 2

(***************************************************************************)
(* C23  Update-local only appends.  As the specification states it: in     *)
(* update-local mode every remote issue whose title the local roadmap      *)
(* lacks is appended to it, and no milestone, feature or task that the     *)
(* roadmap had is removed, renamed or reordered.  Read of the roadmap file *)
(* as the next run loads it: the milestones are those it had, and the      *)
(* features and tasks it had stand where they stood under their titles.    *)
(***************************************************************************)
\* validated_roadmap.dict() as write_roadmap takes it: every text as the
\* lines and tokens it is written with
AsData(rm) ==
    LET Lines(text, parent) ==
            (IF text = "" THEN <<>> ELSE << <<text>> >>)
            \o (IF parent = 0 THEN <<>> ELSE << <<"Parent", "issue:", ToString(parent)>> >>)
        ParentOf(item) == IF "parent_line" \in DOMAIN item THEN item.parent_line ELSE 0
    IN  [name |-> <<"Proj">>,
         description |-> <<>>,
         milestones |-> [m \in DOMAIN rm.milestones |->
                           [name |-> <<rm.milestones[m].name>>,
                            due_date |-> <<rm.milestones[m].due_date>>]],
         features |->
            [f \in DOMAIN rm.features |->
                [title |-> <<rm.features[f].title>>,
                 description |-> Lines(rm.features[f].description, ParentOf(rm.features[f])),
                 tasks |-> [t \in DOMAIN rm.features[f].tasks |->
                              [title |-> <<rm.features[f].tasks[t].title>>,
                               description |-> Lines(rm.features[f].tasks[t].description,
                                                     ParentOf(rm.features[f].tasks[t])),
                               tests |-> <<>>,
                               completed |-> rm.features[f].tasks[t].completed]]]]]

\* an update-local run has written the roadmap file
UpdatedLocal == cmd = "sync" /\ opts.update_local /\ pc = "done" /\ local_file # <<>>

\* the roadmap the run has written
Written == local_file[Len(local_file)]

\* the file as the next run loads it
LoadedBack == validate_roadmap(parse_markdown(write_roadmap(AsData(Written))))

C23_UpdateLocalOnlyAppends ==
    UpdatedLocal =>
        LET back == LoadedBack IN
        /\ back.milestones = AsData(roadmap).milestones
        /\ Len(back.features) >= Len(roadmap.features)
        /\ \A f \in DOMAIN roadmap.features :
            /\ back.features[f].title = <<roadmap.features[f].title>>
            /\ Len(back.features[f].tasks) >= Len(roadmap.features[f].tasks)
            /\ \A t \in DOMAIN roadmap.features[f].tasks :
                back.features[f].tasks[t].title = <<roadmap.features[f].tasks[t].title>>

(***************************************************************************)
(* C24  Code fence stops feature parsing.  As the specification states it: *)
(* when a line that starts with a code fence stands in the features block, *)
(* feature parsing ends there, so that no heading at or after the fence    *)
(* becomes a feature or a task: the features and tasks of the file are     *)
(* those of the file cut off before the fence.  (A feature that has the   *)
(* fence line itself for its title is left out of the comparison.)         *)
(***************************************************************************)
\* the first fence below "## Features", 0 when there is none
FenceAt(file) ==
    LET at == {i \in DOMAIN file : file[i] = <<"##", "Features">>}
        fences == {i \in DOMAIN file :
                    at # {} /\ i > Min(at) /\ StartsWith(file[i], "FENCE")}
    IN  IF fences = {} THEN 0 ELSE Min(fences)

C24_FenceEndsFeatureParsing ==
    (parse_pc = "parsed" /\ FenceAt(md_file) # 0) =>
        LET cut == parse_markdown(SubSeq(md_file, 1, FenceAt(md_file) - 1))
            headed == SelectSeq(FeatureTitles(data), LAMBDA title : title # <<"FENCE">>)
        IN  /\ headed = FeatureTitles(cut)
            /\ Flatten(TaskTitles(data)) = Flatten(TaskTitles(cut))

(***************************************************************************)
(* C25  Tests mode ends at the first line that is no bullet.  As the       *)
(* specification states it: after a "Tests:" line in the body of a task    *)
(* the bullets that follow go to the tests of the task until a line comes  *)
(* that is neither a bullet nor blank; from that line on the lines go to   *)
(* the description again and none is lost.  Stated for the bodies that     *)
(* begin with a line of text and have one "Tests:" line.                   *)
(***************************************************************************)
\* the body of the one task of a file of TestsFiles
BodyOfTask(file) == SubSeq(file, 6, Len(file))

\* the tests the specification gives a body: the bullets between the
\* "Tests:" line and the first line after it that is neither bullet nor blank
ExpectedTests(body) ==
    LET start == Min({i \in DOMAIN body : body[i] = <<"Tests:">>})
        ends == {j \in DOMAIN body : j > start /\ body[j] # <<>> /\ ~IsBullet(body[j])}
        stop == IF ends = {} THEN Len(body) + 1 ELSE Min(ends)
        items == SelectSeq(SubSeq(body, start + 1, stop - 1), IsBullet)
    IN  [n \in DOMAIN items |-> Tail(items[n])]

\* how many lines of text a sequence of lines has
TextLines(lines) == Cardinality({i \in DOMAIN lines : lines[i] = <<"d">>})

C25_TestsModeEndsAtFirstNonBullet ==
    (/\ parse_pc = "parsed"
     /\ md_file \in TestsFiles
     /\ Cardinality({i \in DOMAIN BodyOfTask(md_file) : BodyOfTask(md_file)[i] = <<"Tests:">>}) = 1
     /\ BodyOfTask(md_file)[1] = <<"d">>
     /\ Len(data.features) = 1
     /\ Len(data.features[1].tasks) = 1) =>
        LET task == data.features[1].tasks[1]
            body == BodyOfTask(md_file)
        IN  /\ task.tests = ExpectedTests(body)
            /\ TextLines(task.description) = TextLines(body)

(***************************************************************************)
(* C26  Parent links persist across runs.  As the specification states it: *)
(* once the body of an issue on the tracker has the line "Parent issue:    *)
(* #N", no step of a later sync of the same roadmap replaces that body     *)
(* with one that lacks the line.                                           *)
(***************************************************************************)
C26_Step ==
    \A n \in DOMAIN gh_issues :
        gh_issues[n].body.parent # 0 =>
            /\ n \in DOMAIN gh_issues'
            /\ gh_issues'[n].body.parent = gh_issues[n].body.parent

C26_ParentLinkPersists == [][C26_Step]_vars

(***************************************************************************)
(* C27  Update and close are disjoint.  As the specification states it: in *)
(* one sync run no issue is the target of both an update of its body and a *)
(* close, whatever the roadmap, also when several tasks share one title.   *)
(***************************************************************************)
\* the issues the run has planned to update, and those it has called
\* update_issue or close_issue for
PlannedUpdates == {tasks_to_update[k].number : k \in DOMAIN tasks_to_update}

PlannedCloses == {tasks_to_close[k] : k \in DOMAIN tasks_to_close}

Updated == {calls[k].number : k \in {i \in DOMAIN calls : calls[i].op = "update_issue"}}

Closed == {calls[k].number : k \in {i \in DOMAIN calls : calls[i].op = "close_issue"}}

C27_UpdateAndCloseDisjoint ==
    SyncRun => PlannedUpdates \cap PlannedCloses = {} /\ Updated \cap Closed = {}

(***************************************************************************)
(* C27, as the code has it.  The comparison decides for each task of the   *)
(* roadmap, and puts the issue found for its title on one list at most.    *)
(* An issue is on both lists, and is updated and then closed, only when    *)
(* the roadmap has two tasks of its title, one completed and one not, the  *)
(* latter with a description; with one task to a title no issue is the     *)
(* target of both.                                                         *)
(***************************************************************************)
C27_UpdateAndCloseDisjointPerTitle ==
    SyncRun =>
        LET both == (PlannedUpdates \cap PlannedCloses) \cup (Updated \cap Closed)
            entries == TaskEntries(roadmap)
        IN  \A n \in both :
                /\ n \in PlannedUpdates \cap PlannedCloses
                /\ \E i, j \in DOMAIN entries :
                    /\ TaskOf(roadmap, entries[i]).title = gh_issues[n].title
                    /\ TaskOf(roadmap, entries[j]).title = gh_issues[n].title
                    /\ TaskOf(roadmap, entries[i]).completed
                    /\ ~TaskOf(roadmap, entries[j]).completed
                    /\ TaskOf(roadmap, entries[j]).description # ""

\* a run has updated one issue and closed another
C27_OneUpdatedAnotherClosed ==
    /\ SyncRun
    /\ \E u \in Updated : \E c \in Closed : u # c
    /\ Updated \cap Closed = {}

\* a run has updated an issue and then closed it
C27_IssueUpdatedAndClosed ==
    /\ SyncRun
    /\ Updated \cap Closed # {}

(***************************************************************************)
(* C28  Confirmation gate.  When the answer to the prompt is no (and sync  *)
(* was not given --yes), a sync or diff run issues no mutation of the      *)
(* tracker, on a repository with issues and on one without, and a sync     *)
(* --update-local run does not write the roadmap file.                     *)
(***************************************************************************)
\* a sync or diff run that was not told to go ahead
Declined == cmd \in {"sync", "diff"} /\ pc # "idle" /\ ~opts.proceed

C28_DeclinedRunChangesNothing ==
    Declined => calls = <<>> /\ local_file = <<>> /\ pc \in {"done", "aborted"}

\* a sync that had issues to create has ended on a no to its prompt
C28_DeclinedWithIssuesToCreate ==
    /\ Declined
    /\ cmd = "sync"
    /\ ~opts.update_local
    /\ ~opts.dry_run
    /\ pc = "done"
    /\ MissingEntries # {}

(***************************************************************************)
(* C29  Update-local marks completion.  As the specification states it:    *)
(* after an update-local run that was confirmed and was no dry run, every  *)
(* task of the roadmap whose title is the title of a closed issue stands   *)
(* in the roadmap file with completed = true, whether or not the tracker   *)
(* has issues the roadmap lacks.                                           *)
(***************************************************************************)
\* the titles of the closed issues of the tracker
ClosedTitles ==
    {gh_issues[n].title : n \in {k \in DOMAIN gh_issues : gh_issues[k].state = "closed"}}

C29_ClosedIssuesMarkedCompleted ==
    (cmd = "sync" /\ opts.update_local /\ pc = "done" /\ Confirmed) =>
        \A f \in DOMAIN roadmap.features :
            \A t \in DOMAIN roadmap.features[f].tasks :
                roadmap.features[f].tasks[t].title \in ClosedTitles =>
                    /\ local_file # <<>>
                    /\ Written.features[f].tasks[t].completed

(***************************************************************************)
(* The agents of the worktrees (core/worktree_agents.py).  start_agent     *)
(* keeps the pids of the processes it has started in the dictionary        *)
(* start_agent.running_agents under the key f"{branch}-{agent_name}".  A   *)
(* name is modelled as the sequence of its parts between hyphens, so that  *)
(* joining two names with "-" is the concatenation of their parts and      *)
(* startswith compares parts.  A missing dictionary and an empty one are   *)
(* the same to the code and are one value here.                            *)
(***************************************************************************)
MaxAgentProcs == 3

\* the branches list_worktrees knows a worktree for
AgentBranches == {<<"feat">>, <<"feat", "x">>, <<"main">>}

\* the branch names a command may be given
BranchArgs == AgentBranches \cup {<<"gone">>}

\* config["agents"]: whether the agent has a command
AgentConfig ==
    [a \in {<<"aider">>, <<"claude">>, <<"cursor">>} |-> a # <<"cursor">>]

\* the agent names a command may be given
AgentNames == DOMAIN AgentConfig \cup {<<"other">>}

\* f"{branch}-{agent_name}"
agent_id(branch, agent_name) == branch \o agent_name

\* agent_id.startswith(f"{branch}-")
startswith(id, branch) ==
    /\ Len(id) > Len(branch)
    /\ SubSeq(id, 1, Len(branch)) = branch

\* a dictionary after d[k] = v
Put(d, k, v) == [x \in DOMAIN d \cup {k} |-> IF x = k THEN v ELSE d[x]]

\* a dictionary after del d[k] for every k of ks
Del(d, ks) == [x \in DOMAIN d \ ks |-> d[x]]

\* the registered agent ids whose process has ended
DeadAgents == {id \in DOMAIN running_agents : ~agent_procs[running_agents[id]].alive}

AgentInit ==
    /\ roadmap = [milestones |-> <<>>, features |-> <<>>]
    /\ gh_issues = <<>>
    /\ gh_milestones = {}
    /\ NotRunning
    /\ NotParsing

start_agent(branch, agent_name) ==
    /\ Len(agent_procs) < MaxAgentProcs
    /\ IF \/ agent_name \notin DOMAIN AgentConfig
          \/ branch \notin AgentBranches
          \/ ~AgentConfig[agent_name]
       THEN UNCHANGED agents
       ELSE \E started \in BOOLEAN :
                IF started
                THEN /\ agent_procs' = Append(agent_procs,
                            [branch |-> branch, agent_name |-> agent_name, alive |-> TRUE])
                     /\ running_agents' = Put(running_agents, agent_id(branch, agent_name),
                                              Len(agent_procs) + 1)
                ELSE UNCHANGED agents
    /\ UNCHANGED <<running, md_file, data, validated, parse_pc, loading>>

\* the command of an agent ends by itself
AgentExits ==
    /\ \E pid \in DOMAIN agent_procs :
           /\ agent_procs[pid].alive
           /\ agent_procs' = [agent_procs EXCEPT ![pid].alive = FALSE]
    /\ UNCHANGED <<running_agents, running, md_file, data, validated, parse_pc, loading>>

\* os.kill(pid, 0) raises for at most one entry before the loop ends: the
\* del inside the loop over the dictionary ends the iteration, and so does
\* an echo that rejects its arguments; a process that has ended may still
\* answer the signal
agent_status ==
    /\ running_agents # <<>>
    /\ \E gone \in SUBSET DeadAgents :
           /\ Cardinality(gone) <= 1
           /\ running_agents' = Del(running_agents, gone)
    /\ UNCHANGED <<agent_procs, running, md_file, data, validated, parse_pc, loading>>

\* os.killpg ends the process group of every entry whose key starts with
\* f"{branch}-"; for a process that has ended it may raise OSError, and then
\* the entry stays
kill_agent(branch) ==
    /\ IF running_agents = <<>>
       THEN UNCHANGED agents
       ELSE LET matched == {id \in DOMAIN running_agents : startswith(id, branch)}
            IN  \E stopped \in SUBSET matched :
                    /\ matched \ DeadAgents \subseteq stopped
                    /\ running_agents' = Del(running_agents, stopped)
                    /\ agent_procs' =
                           [pid \in DOMAIN agent_procs |->
                               IF \E id \in stopped : running_agents[id] = pid
                               THEN [agent_procs[pid] EXCEPT !.alive = FALSE]
                               ELSE agent_procs[pid]]
    /\ UNCHANGED <<running, md_file, data, validated, parse_pc, loading>>

AgentNext ==
    \/ \E branch \in BranchArgs, agent_name \in AgentNames : start_agent(branch, agent_name)
    \/ AgentExits
    \/ agent_status
    \/ \E branch \in BranchArgs : kill_agent(branch)

AgentSpec == AgentInit /\ [][AgentNext]_vars

(***************************************************************************)
(* C30  kill_agent is scoped to one worktree.  As the specification states *)
(* it: kill_agent(branch) stops and unregisters only agents that were      *)
(* started for exactly that branch; every agent registered for another     *)
(* branch name stays registered under its pid and stays running if it was. *)
(***************************************************************************)
C30_Step ==
    \A branch \in BranchArgs :
        kill_agent(branch) =>
            \A id \in DOMAIN running_agents :
                LET pid == running_agents[id]
                IN  agent_procs[pid].branch # branch =>
                        /\ id \in DOMAIN running_agents'
                        /\ running_agents'[id] = pid
                        /\ agent_procs'[pid].alive = agent_procs[pid].alive

C30_KillAgentScopedToBranch == [][C30_Step]_vars
====
